---- MODULE Spec2Model ----
(***************************************************************************)
(* A model of tabelle-core: addressing, the formula reference engine       *)
(* (parse_raw / moved_to), the delimited-text reader (csv.rs), and the      *)
(* grid with its whole-grid evaluation passes.                              *)
(*                                                                          *)
(* Text is modelled as a sequence of one-character strings, so that        *)
(* scanning, searching and replacing work on characters as the code does.   *)
(***************************************************************************)
EXTENDS Integers, Sequences, FiniteSets, TLC

VARIABLES
    formula,      \* the Formula under relocation (formula.rs:15-23)
    moved,        \* outcome of the last moved_to call on it
    csv_s,        \* the text handed to the delimited-text reader
    csv_out,      \* outcome of the last csv.rs call on csv_s
    sheet,        \* the Spreadsheet (lib.rs:19-28)
    last_op,      \* the last Spreadsheet operation that ran, with its outcome
    panicked      \* TRUE once an operation aborted (panic!, todo!, assert, unwrap)

vars == <<formula, moved, csv_s, csv_out, sheet, last_op, panicked>>

(***************************************************************************)
(* Characters and text                                                      *)
(***************************************************************************)
UpperLetters == <<"A","B","C","D","E","F","G","H","I","J","K","L","M",
                  "N","O","P","Q","R","S","T","U","V","W","X","Y","Z">>
LowerLetters == <<"a","b","c","d","e","f","g","h","i","j","k","l","m",
                  "n","o","p","q","r","s","t","u","v","w","x","y","z">>
DigitChars == <<"0","1","2","3","4","5","6","7","8","9">>

is_ascii_uppercase(ch) == \E i \in 1..26 : UpperLetters[i] = ch
is_ascii_lowercase(ch) == \E i \in 1..26 : LowerLetters[i] = ch
is_ascii_alphabetic(ch) == is_ascii_uppercase(ch) \/ is_ascii_lowercase(ch)
is_ascii_digit(ch) == \E i \in 1..10 : DigitChars[i] = ch
is_whitespace(ch) == ch \in {" ", "\t", "\n", "\r"}

\* (ch.to_ascii_uppercase() as u8) - b'A'
LetterDigit(ch) ==
    (CHOOSE i \in 1..26 : UpperLetters[i] = ch \/ LowerLetters[i] = ch) - 1

\* ch.to_digit(10)
DigitValue(ch) == (CHOOSE i \in 1..10 : DigitChars[i] = ch) - 1

to_ascii_lowercase(ch) ==
    IF is_ascii_uppercase(ch) THEN LowerLetters[LetterDigit(ch) + 1] ELSE ch

to_lowercase(s) == [i \in 1..Len(s) |-> to_ascii_lowercase(s[i])]

\* s[from..] with a 1-based from
Suffix(s, from) == SubSeq(s, from, Len(s))

\* usize -> decimal text (Display for usize)
RECURSIVE to_string(_)
to_string(n) ==
    IF n < 10 THEN <<DigitChars[n + 1]>>
    ELSE to_string(n \div 10) \o <<DigitChars[(n % 10) + 1]>>

\* F applied to the value of e: e is evaluated once, before F
Apply(F(_), e) == CHOOSE r \in {F(x) : x \in {e}} : TRUE

Ok(v) == [ok |-> TRUE, val |-> v]
Err == [ok |-> FALSE, val |-> <<>>]

RECURSIVE DigitsValue(_, _)
DigitsValue(s, acc) ==
    IF s = <<>> THEN acc
    ELSE DigitsValue(Tail(s), acc * 10 + DigitValue(Head(s)))

\* str::parse::<usize>(): an optional '+', then one or more decimal digits
parse_usize(s) ==
    LET body == IF s # <<>> /\ Head(s) = "+" THEN Tail(s) ELSE s
    IN  IF body # <<>> /\ \A i \in 1..Len(body) : is_ascii_digit(body[i])
        THEN Ok(DigitsValue(body, 0))
        ELSE Err

(***************************************************************************)
(* Addressing (lib.rs:431-493, cells.rs:35-37)                              *)
(***************************************************************************)
RECURSIVE to_column_name_loop(_, _)
to_column_name_loop(index, result) ==
    IF index >= 26
    THEN to_column_name_loop(index \div 26, <<UpperLetters[(index % 26) + 1]>> \o result)
    ELSE <<UpperLetters[index + 1]>> \o result

\* to_column_name pushing each letter at the end instead of inserting it at
\* the front
to_column_name_pushing(index) ==
    LET n == to_column_name_loop(index, <<>>)
    IN  [k \in 1..Len(n) |-> n[Len(n) + 1 - k]]

to_column_name(index) == to_column_name_loop(index, <<>>)

RECURSIVE column_name_loop(_, _)
column_name_loop(s, result) ==
    IF s = <<>> THEN Ok(result)
    ELSE IF is_ascii_alphabetic(Head(s))
         THEN column_name_loop(Tail(s), result * 26 + LetterDigit(Head(s)))
         ELSE Err

column_name_to_index(column) ==
    IF column = <<>> THEN Err ELSE column_name_loop(column, 0)

\* The char loop of cell_name_to_position: i is the 1-based index of the next
\* character, x the column read so far, has_column whether a letter was seen.
RECURSIVE cell_name_loop(_, _, _, _)
cell_name_loop(cell, i, x, has_column) ==
    IF i > Len(cell) THEN Err                       \* still is_at_column (or empty)
    ELSE IF is_ascii_uppercase(cell[i])
         THEN cell_name_loop(cell, i + 1, x * 26 + LetterDigit(cell[i]), TRUE)
         ELSE IF ~has_column THEN Err
              ELSE LET y == parse_usize(Suffix(cell, i))
                   IN  IF y.ok THEN Ok(<<x, y.val>>) ELSE Err

cell_name_to_position(cell) == cell_name_loop(cell, 1, 0, FALSE)

\* CellPosition::name / Cell::name
name(p) == to_column_name(p[1]) \o to_string(p[2])

(***************************************************************************)
(* Formula reference engine (cells/cell_content/formula.rs)                 *)
(***************************************************************************)
\* CellReference
Cell(p) == <<"Cell", p[1], p[2]>>
Row(r) == <<"Row", r>>
Column(c) == <<"Column", c>>

\* Value
ValueEmpty == <<"Empty">>
ValueError == <<"Error">>
ValueNumber(n) == <<"Number", n>>
ValueString(s) == <<"String", s>>

SEPERATORS == {" ", "(", ")", "*", "-", "+", "/", ",", ".", ";", "[", "]", "%", "!"}

\* a slice that ends at the last row of the range instead of one past it
slice_code_to_last_row(x, from, to) ==
    to_column_name(x) \o <<"[">> \o to_string(from) \o <<":">> \o to_string(to - 1) \o <<"]">>

\* format!("{}[{}:{}]", to_column_name(x), from, to)
slice_code(x, from, to) ==
    to_column_name(x) \o <<"[">> \o to_string(from) \o <<":">> \o to_string(to) \o <<"]">>

\* for x in first..=last { if !python_code.is_empty() { " + " } write!(...) }
RECURSIVE range_code(_, _, _, _, _)
range_code(x, last, from, to, python_code) ==
    IF x > last THEN python_code
    ELSE range_code(x + 1, last, from, to,
                    (IF python_code # <<>> THEN python_code \o <<" ", "+", " ">> ELSE python_code)
                        \o slice_code(x, from, to))

\* the token resolved without comparing a column with the width of the grid
resolve_token_without_width_check(st, size) ==
    LET cell == cell_name_to_position(st.buf)
        row == parse_usize(st.buf)
        column == column_name_to_index(st.buf)
    IN  IF st.last # <<>>
        THEN IF cell.ok
             THEN [st EXCEPT !.refs = @ \o <<Cell(st.last), Cell(cell.val)>>,
                             !.parsed = @ \o range_code(st.last[1], cell.val[1], st.last[2],
                                                        cell.val[2] + 1, <<>>),
                             !.last = <<>>, !.buf = <<>>]
             ELSE IF row.ok
                  THEN [st EXCEPT !.refs = @ \o <<Cell(st.last), Row(row.val)>>,
                                  !.parsed = @ \o slice_code(st.last[1], st.last[2], row.val + 1),
                                  !.last = <<>>, !.buf = <<>>]
                  ELSE [st EXCEPT !.panicked = TRUE]          \* todo!()
        ELSE [st EXCEPT !.refs = IF cell.ok THEN Append(@, Cell(cell.val))
                                 ELSE IF column.ok
                                      THEN Append(@, Column(column.val))
                                      ELSE @,
                        !.parsed = @ \o st.buf,
                        !.buf = <<>>]

\* What parse_raw does with the token in variable_buffer, at a separator
\* (lines 220-268) and at the end of the text (lines 276-324).  st.last is
\* last_position: <<>> for None, <<x, y>> for Some.
resolve_token(st, size) ==
    LET cell == cell_name_to_position(st.buf)
        row == parse_usize(st.buf)
        column == column_name_to_index(st.buf)
    IN  IF st.last # <<>>
        THEN IF cell.ok
             THEN [st EXCEPT !.refs = @ \o <<Cell(st.last), Cell(cell.val)>>,
                             !.parsed = @ \o range_code(st.last[1], cell.val[1], st.last[2],
                                                        cell.val[2] + 1, <<>>),
                             !.last = <<>>, !.buf = <<>>]
             ELSE IF row.ok
                  THEN [st EXCEPT !.refs = @ \o <<Cell(st.last), Row(row.val)>>,
                                  !.parsed = @ \o slice_code(st.last[1], st.last[2], row.val + 1),
                                  !.last = <<>>, !.buf = <<>>]
                  ELSE [st EXCEPT !.panicked = TRUE]          \* todo!()
        ELSE [st EXCEPT !.refs = IF cell.ok THEN Append(@, Cell(cell.val))
                                 ELSE IF column.ok /\ column.val < size[1]
                                      THEN Append(@, Column(column.val))
                                      ELSE @,
                        !.parsed = @ \o st.buf,
                        !.buf = <<>>]

RECURSIVE parse_raw_loop(_, _, _, _)
parse_raw_loop(raw, i, size, st) ==
    IF st.panicked THEN st
    ELSE IF i > Len(raw) THEN resolve_token(st, size)
    ELSE Apply(LAMBDA next : parse_raw_loop(raw, i + 1, size, next),
               LET ch == raw[i]
               IN  IF ch = ":"
                   THEN LET p == cell_name_to_position(st.buf)
                        IN  [st EXCEPT !.last = IF p.ok THEN p.val ELSE <<>>, !.buf = <<>>]
                   ELSE IF ch \in SEPERATORS
                        THEN Apply(LAMBDA t :
                                     IF t.panicked THEN t
                                     ELSE IF t.parsed # <<>> \/ ~is_whitespace(ch)
                                          THEN [t EXCEPT !.parsed = Append(@, ch)]
                                          ELSE t,
                                   resolve_token(st, size))
                        ELSE [st EXCEPT !.buf = Append(@, ch)])

\* Formula::parse_raw(raw, size): [panicked, parsed, refs]
parse_raw(raw, size) ==
    parse_raw_loop(raw, 1, size,
                   [buf |-> <<>>, parsed |-> <<>>, refs |-> <<>>, last |-> <<>>,
                    panicked |-> FALSE])

\* str::find of needle in hay[cursor..], as a 1-based index into hay; 0 for None
str_find(hay, cursor, needle) ==
    LET hits == {i \in cursor..(Len(hay) - Len(needle) + 1) :
                    SubSeq(hay, i, i + Len(needle) - 1) = needle}
    IN  IF hits = {} THEN 0 ELSE CHOOSE i \in hits : \A j \in hits : i <= j

\* String::replace_range(at..at+len, with)
replace_range(s, at, len, with) ==
    SubSeq(s, 1, at - 1) \o with \o SubSeq(s, at + len, Len(s))

\* One reference moved by the offset: the (old text, new text, new reference) of
\* the match in moved_to, lines 168-188.
shifted(r, x_offset, y_offset) ==
    IF r[1] = "Cell" THEN Cell(<<r[2] + x_offset, r[3] + y_offset>>)
    ELSE IF r[1] = "Row" THEN Row(r[2] + y_offset)
    ELSE Column(r[2] + x_offset)

reference_text(r) ==
    IF r[1] = "Cell" THEN name(<<r[2], r[3]>>)
    ELSE IF r[1] = "Row" THEN to_string(r[2])
    ELSE to_column_name(r[2])

\* the loop of moved_to, lines 166-191: [panicked, raw, references]
RECURSIVE moved_to_loop(_, _, _, _, _, _)
moved_to_loop(references, i, x_offset, y_offset, raw, cursor) ==
    IF i > Len(references) THEN [panicked |-> FALSE, raw |-> raw, references |-> references]
    ELSE LET old == reference_text(references[i])
             r == shifted(references[i], x_offset, y_offset)
             at == str_find(raw, cursor, old)
         IN  IF at = 0
             THEN [panicked |-> TRUE, raw |-> raw, references |-> references]   \* unwrap on None
             ELSE Apply(LAMBDA l : moved_to_loop(l.references, i + 1, x_offset, y_offset,
                                                 l.raw, l.cursor),
                        [references |-> [references EXCEPT ![i] = r],
                         raw |-> replace_range(raw, at, Len(old), reference_text(r)),
                         cursor |-> at])

\* Formula::moved_to(&self, position, size): Ok(Formula), or Err when it panics
moved_to(f, position, size) ==
    LET x_offset == position[1] - f.position[1]
        y_offset == position[2] - f.position[2]
    IN  Apply(LAMBDA l :
                Apply(LAMBDA p :
                        IF l.panicked \/ p.panicked \/ l.references # p.refs  \* assert_eq!
                        THEN Err
                        ELSE Ok([position |-> position, parsed |-> p.parsed, raw |-> l.raw,
                                 references |-> l.references, value |-> ValueEmpty]),
                      parse_raw(l.raw, size)),
              moved_to_loop(f.references, 1, x_offset, y_offset, f.raw, 1))

\* The Formula that CellContent::parse builds for the text "=" + raw
\* (cell_content.rs:155-163); Err when parse_raw panics.
parse_formula(raw, cell_position, size) ==
    Apply(LAMBDA p :
            IF p.panicked THEN Err
            ELSE Ok([position |-> cell_position, parsed |-> p.parsed, raw |-> raw,
                     references |-> p.refs, value |-> ValueEmpty]),
          parse_raw(raw, size))

(***************************************************************************)
(* Delimited-text reader (csv.rs)                                           *)
(***************************************************************************)
KNOWN_SEPERATORS == <<",", ";", "\t">>
QUOTE == "\""

\* CsvParseError
InvalidEscaping == <<"InvalidEscaping">>
UnfinishedEscaping == <<"UnfinishedEscaping">>
NoCellsFound(w, h) == <<"NoCellsFound", w, h>>
NoSuccessfullParse(e) == <<"NoSuccessfullParse", e>>
Error(e) == [ok |-> FALSE, val |-> e]

\* str::lines(): split at "\n", no final empty line, a trailing "\r" dropped
RECURSIVE split_lines(_, _, _)
split_lines(s, line, acc) ==
    IF s = <<>> THEN Append(acc, line)
    ELSE IF Head(s) = "\n" THEN split_lines(Tail(s), <<>>, Append(acc, line))
         ELSE split_lines(Tail(s), Append(line, Head(s)), acc)

strip_cr(line) ==
    IF line # <<>> /\ line[Len(line)] = "\r" THEN SubSeq(line, 1, Len(line) - 1) ELSE line

lines(s) ==
    LET pieces == split_lines(s, <<>>, <<>>)
        kept == IF pieces[Len(pieces)] = <<>> THEN SubSeq(pieces, 1, Len(pieces) - 1)
                ELSE pieces
    IN  [i \in 1..Len(kept) |-> strip_cr(kept[i])]

\* csv_match with the guard of the first arm taken for a rejection: a quote
\* inside an unquoted field is reported as InvalidEscaping.
csv_match_rejecting_quotes(state, ch, sep) ==
    IF ch = QUOTE /\ state = "InCell"
    THEN [arm |-> "default", err |-> TRUE, state |-> state]
    ELSE IF ch = QUOTE
    THEN [arm |-> "quote", err |-> FALSE,
          state |-> IF state = "InCellEscaped" THEN "InCellEndEscape" ELSE "InCellEscaped"]
    ELSE IF ch = sep /\ state \in {"InCell", "InCellEndEscape"}
         THEN [arm |-> "seperator", err |-> FALSE, state |-> "NewCell"]
         ELSE [arm |-> "default", err |-> state = "InCellEndEscape",
               state |-> IF state = "NewCell" THEN "InCell" ELSE state]

\* The `match ch` both passes share (lines 68-101 and 135-175): the arm taken
\* and the state it leaves; err is the InvalidEscaping of the third arm.
csv_match(state, ch, sep) ==
    IF ch = QUOTE /\ state # "InCell"
    THEN [arm |-> "quote", err |-> FALSE,
          state |-> IF state = "InCellEscaped" THEN "InCellEndEscape" ELSE "InCellEscaped"]
    ELSE IF ch = sep /\ state \in {"InCell", "InCellEndEscape"}
         THEN [arm |-> "seperator", err |-> FALSE, state |-> "NewCell"]
         ELSE [arm |-> "default", err |-> state = "InCellEndEscape",
               state |-> IF state = "NewCell" THEN "InCell" ELSE state]

\* the chars of one line in parse_size_of_csv: [err, state, current_width]
RECURSIVE size_line(_, _, _, _, _)
size_line(line, i, sep, state, current_width) ==
    IF i > Len(line) THEN [err |-> <<>>, state |-> state, current_width |-> current_width]
    ELSE Apply(LAMBDA m :
                 IF m.err
                 THEN [err |-> InvalidEscaping, state |-> state,
                       current_width |-> current_width]
                 ELSE IF m.state = "InCellEscaped"                    \* lines 102-107
                      THEN [err |-> UnfinishedEscaping, state |-> m.state,
                            current_width |-> current_width]
                      ELSE size_line(line, i + 1, sep, m.state,
                                     IF m.arm = "seperator" THEN current_width + 1
                                     ELSE current_width),
               csv_match(state, line[i], sep))

RECURSIVE size_lines(_, _, _, _, _, _)
size_lines(ls, n, sep, state, width, height) ==
    IF n > Len(ls)
    THEN IF width = 0 \/ height = 0 THEN Error(NoCellsFound(width, height))
         ELSE Ok(<<width, height>>)
    ELSE Apply(LAMBDA l :
                 IF l.err # <<>> THEN Error(l.err)
                 ELSE size_lines(ls, n + 1, sep, l.state,
                                 IF width < l.current_width THEN l.current_width ELSE width,
                                 height + (IF l.current_width > 0 THEN 1 ELSE 0)),
               size_line(ls[n], 1, sep, state, IF ls[n] # <<>> THEN 1 ELSE 0))

parse_size_of_csv(s, sep) == size_lines(lines(s), 1, sep, "NewCell", 0, 0)

\* the chars of one line in parse_csv: [err, state, cells, current_cell]
RECURSIVE parse_line(_, _, _, _, _, _)
parse_line(line, i, seperator, state, cells, current_cell) ==
    IF i > Len(line)
    THEN [err |-> FALSE, state |-> state, cells |-> cells, current_cell |-> current_cell]
    ELSE Apply(LAMBDA m :
                 IF m.err
                 THEN [err |-> TRUE, state |-> state, cells |-> cells,
                       current_cell |-> current_cell]
                 ELSE IF m.arm = "quote"
                      THEN parse_line(line, i + 1, seperator, m.state, cells,
                                      IF state = "InCellEndEscape"
                                      THEN Append(current_cell, QUOTE) ELSE current_cell)
                      ELSE IF m.arm = "seperator"
                           THEN parse_line(line, i + 1, seperator, m.state,
                                           Append(cells, current_cell), <<>>)
                           ELSE parse_line(line, i + 1, seperator, m.state, cells,
                                           Append(current_cell, line[i])),
               csv_match(state, line[i], seperator))

\* while cells.len() < cell_count + width { cells.push(String::new()) }
RECURSIVE pad_row(_, _)
pad_row(cells, upto) ==
    IF Len(cells) < upto THEN pad_row(Append(cells, <<>>), upto) ELSE cells

RECURSIVE parse_lines(_, _, _, _, _, _)
parse_lines(ls, n, seperator, width, state, cells) ==
    IF n > Len(ls) THEN [err |-> FALSE, cells |-> cells]
    ELSE Apply(LAMBDA l :
                 IF l.err THEN [err |-> TRUE, cells |-> cells]
                 ELSE Apply(LAMBDA padded :
                              parse_lines(ls, n + 1, seperator, width, l.state, padded),
                            pad_row(Append(l.cells, l.current_cell), Len(cells) + width)),
               parse_line(ls[n], 1, seperator, state, cells, <<>>))

\* parse_csv: outcome "ok" with the CsvFile, "err" with the error, or "panic"
\* (the division by width*height of line 128, the assert_eq! of line 184)
parse_csv(s, seperator, width, height) ==
    IF width * height = 0 THEN [outcome |-> "panic"]
    ELSE LET p == parse_lines(lines(s), 1, seperator, width, "NewCell", <<>>)
         IN  IF p.err THEN [outcome |-> "err", error |-> InvalidEscaping]
             ELSE IF Len(p.cells) # width * height
                  THEN [outcome |-> "panic", cells |-> p.cells]
                  ELSE [outcome |-> "ok", cells |-> p.cells, width |-> width,
                        height |-> height, seperator |-> seperator]

\* (usize, usize)::cmp
tuple_cmp(a, b) ==
    IF a[1] < b[1] THEN "Less" ELSE IF a[1] > b[1] THEN "Greater"
    ELSE IF a[2] < b[2] THEN "Less" ELSE IF a[2] > b[2] THEN "Greater" ELSE "Equal"

\* size_order with the two sizes compared the other way round (ascending)
size_order_ascending(a, b) ==
    IF a.size.ok /\ b.size.ok THEN tuple_cmp(a.size.val, b.size.val)
    ELSE IF a.size.ok THEN "Less"
    ELSE IF b.size.ok THEN "Greater"
    ELSE "Equal"

\* the closure given to sort_unstable_by, lines 32-37; an entry is
\* [sep, size] with size the Result of the sizing pass
size_order(a, b) ==
    IF a.size.ok /\ b.size.ok THEN tuple_cmp(b.size.val, a.size.val)
    ELSE IF a.size.ok THEN "Less"
    ELSE IF b.size.ok THEN "Greater"
    ELSE "Equal"

\* lines 28-31: one sizing pass per known separator
sizes(s) ==
    [i \in 1..Len(KNOWN_SEPERATORS) |->
        [sep |-> KNOWN_SEPERATORS[i], size |-> parse_size_of_csv(s, KNOWN_SEPERATORS[i])]]

\* sort_unstable_by: every arrangement of v that is ordered by size_order (the
\* order of equal entries is unspecified)
sort_unstable_by(v) ==
    LET n == Len(v)
        perms == {p \in [1..n -> 1..n] : \A i, j \in 1..n : i # j => p[i] # p[j]}
    IN  {[i \in 1..n |-> v[p[i]]] : p \in
            {q \in perms : \A i \in 1..(n - 1) : size_order(v[q[i]], v[q[i + 1]]) # "Greater"}}

\* CsvFile::from_str, given the sorted vector: lines 38-47
from_str_sorted(s, size) ==
    IF size[1].size.ok
    THEN parse_csv(s, size[1].sep, size[1].size.val[1], size[1].size.val[2])
    ELSE [outcome |-> "err", error |-> NoSuccessfullParse(size[1].size.val)]

(***************************************************************************)
(* Cell content (cells/cell_content.rs) and formula values (formula.rs)     *)
(***************************************************************************)
\* usize::MAX, the grid size load_csv hands to the formula parser; the value
\* written here only has to exceed every column index of the model
usize_MAX == 2147483647

\* CellContent.  A FloatNumber(f64, i32) is kept as the decimal fraction
\* num / 10^scale and its digit_count; binary rounding is not modelled.
Empty == <<"Empty">>
Text(it) == <<"Text", it>>
Number(it) == <<"Number", it>>
FloatNumber(num, scale, digit_count) == <<"FloatNumber", num, scale, digit_count>>
Formula(f) == <<"Formula", f>>
ValueFloatNumber(num, scale) == <<"FloatNumber", num, scale>>

RECURSIVE pow10(_)
pow10(n) == IF n <= 0 THEN 1 ELSE 10 * pow10(n - 1)

\* the fraction num / 10^scale without trailing zeros
RECURSIVE f64(_, _)
f64(num, scale) ==
    IF scale > 0 /\ num % 10 = 0 THEN f64(num \div 10, scale - 1) ELSE <<num, scale>>

f64_add(a, b) ==
    LET scale == IF a[2] > b[2] THEN a[2] ELSE b[2]
    IN  f64(a[1] * pow10(scale - a[2]) + b[1] * pow10(scale - b[2]), scale)

\* Display for i64 and for f64
i64_to_string(n) == IF n < 0 THEN <<"-">> \o to_string(0 - n) ELSE to_string(n)

f64_to_string(v) ==
    LET abs == IF v[1] < 0 THEN 0 - v[1] ELSE v[1]
        whole == to_string(abs \div pow10(v[2]))
        digits == to_string(abs % pow10(v[2]))
        zeros == [i \in 1..(v[2] - Len(digits)) |-> "0"]
    IN  (IF v[1] < 0 THEN <<"-">> ELSE <<>>)
        \o (IF v[2] = 0 THEN whole ELSE whole \o <<".">> \o zeros \o digits)

\* str::parse::<i64>(): an optional sign, then one or more decimal digits
parse_i64(s) ==
    LET body == IF s # <<>> /\ Head(s) \in {"+", "-"} THEN Tail(s) ELSE s
    IN  IF body # <<>> /\ \A i \in 1..Len(body) : is_ascii_digit(body[i])
        THEN Ok(IF Head(s) = "-" THEN 0 - DigitsValue(body, 0) ELSE DigitsValue(body, 0))
        ELSE Err

\* str::parse::<f64>() for the decimal notation: an optional sign, digits with
\* at most one '.', at least one digit.  Exponents, "inf" and "nan" are not
\* among the texts of this model.
parse_f64(s) ==
    LET body == IF s # <<>> /\ Head(s) \in {"+", "-"} THEN Tail(s) ELSE s
        dots == {i \in 1..Len(body) : body[i] = "."}
        digits == SelectSeq(body, is_ascii_digit)
        dot == IF dots = {} THEN Len(body) + 1 ELSE CHOOSE i \in dots : TRUE
    IN  IF /\ Cardinality(dots) <= 1
           /\ digits # <<>>
           /\ Len(digits) + Cardinality(dots) = Len(body)
        THEN Ok(f64(IF Head(s) = "-" THEN 0 - DigitsValue(digits, 0)
                    ELSE DigitsValue(digits, 0),
                    IF dots = {} THEN 0 ELSE Len(body) - dot))
        ELSE Err

\* Formula::new_at
new_at(position) ==
    [position |-> position, parsed |-> <<>>, raw |-> <<>>, references |-> <<>>,
     value |-> ValueEmpty]

\* CellContent::parse(cell, cell_position, size); Err when parse_raw aborts
CellContent_parse(cell, cell_position, size) ==
    IF cell = <<>> THEN Ok(Empty)
    ELSE Apply(LAMBDA it :
                 IF it.ok THEN Ok(Number(it.val))
                 ELSE Apply(LAMBDA float :
                              IF float.ok THEN Ok(FloatNumber(float.val[1], float.val[2], 0))
                              ELSE IF Head(cell) = "="
                                   THEN Apply(LAMBDA f : IF f.ok THEN Ok(Formula(f.val))
                                                         ELSE Err,
                                              parse_formula(Tail(cell), cell_position, size))
                                   ELSE Ok(Text(cell)),
                            parse_f64(cell)),
               parse_i64(cell))

\* input_char whose decimal point opens a FloatNumber with no digit counted
\* yet (digit_count 0 instead of 1)
CellContent_input_char_counting_from_zero(content, ch, position) ==
    LET to(c) == [content |-> c, panicked |-> FALSE]
    IN  IF content = Empty
        THEN IF is_ascii_digit(ch) THEN to(Number(DigitValue(ch)))
             ELSE IF ch = "=" THEN to(Formula(new_at(position)))
             ELSE IF ch = "." THEN to(FloatNumber(0, 0, 0))
             ELSE to(Text(<<ch>>))
        ELSE IF content[1] = "Text" THEN to(Text(Append(content[2], ch)))
        ELSE IF content[1] = "Formula"
             THEN [content |-> Formula([content[2] EXCEPT !.raw = Append(@, ch)]),
                   panicked |-> TRUE]
        ELSE IF content[1] = "Number"
             THEN IF is_ascii_digit(ch) THEN to(Number(content[2] * 10 + DigitValue(ch)))
                  ELSE IF ch = "." THEN to(FloatNumber(content[2], 0, 0))
                  ELSE to(Text(Append(i64_to_string(content[2]), ch)))
        ELSE IF is_ascii_digit(ch)
             THEN LET v == f64_add(<<content[2], content[3]>>,
                                   f64(DigitValue(ch), content[4]))
                  IN  to(FloatNumber(v[1], v[2], content[4] + 1))
             ELSE to(Text(Append(f64_to_string(<<content[2], content[3]>>), ch)))

\* input_char in which a number that receives another character starts anew
\* as the content that character alone gives an Empty cell
CellContent_input_char_restarting(content, ch, position) ==
    LET to(c) == [content |-> c, panicked |-> FALSE]
    IN  IF content = Empty \/ (content[1] = "Number" /\ ~is_ascii_digit(ch) /\ ch # ".")
        THEN IF is_ascii_digit(ch) THEN to(Number(DigitValue(ch)))
             ELSE IF ch = "=" THEN to(Formula(new_at(position)))
             ELSE IF ch = "." THEN to(FloatNumber(0, 0, 1))
             ELSE to(Text(<<ch>>))
        ELSE IF content[1] = "Text" THEN to(Text(Append(content[2], ch)))
        ELSE IF content[1] = "Formula"
             THEN [content |-> Formula([content[2] EXCEPT !.raw = Append(@, ch)]),
                   panicked |-> TRUE]
        ELSE IF content[1] = "Number"
             THEN IF is_ascii_digit(ch) THEN to(Number(content[2] * 10 + DigitValue(ch)))
                  ELSE to(FloatNumber(content[2], 0, 1))
        ELSE IF is_ascii_digit(ch)
             THEN LET v == f64_add(<<content[2], content[3]>>,
                                   f64(DigitValue(ch), content[4]))
                  IN  to(FloatNumber(v[1], v[2], content[4] + 1))
             ELSE to(Text(Append(f64_to_string(<<content[2], content[3]>>), ch)))

\* CellContent::input_char(ch, position): [content, panicked]; the Formula arm
\* is Formula::push_char (formula.rs:77-80), which pushes ch and then aborts
CellContent_input_char(content, ch, position) ==
    LET to(c) == [content |-> c, panicked |-> FALSE]
    IN  IF content = Empty
        THEN IF is_ascii_digit(ch) THEN to(Number(DigitValue(ch)))
             ELSE IF ch = "=" THEN to(Formula(new_at(position)))
             ELSE IF ch = "." THEN to(FloatNumber(0, 0, 1))
             ELSE to(Text(<<ch>>))
        ELSE IF content[1] = "Text" THEN to(Text(Append(content[2], ch)))
        ELSE IF content[1] = "Formula"
             THEN [content |-> Formula([content[2] EXCEPT !.raw = Append(@, ch)]),
                   panicked |-> TRUE]
        ELSE IF content[1] = "Number"
             THEN IF is_ascii_digit(ch) THEN to(Number(content[2] * 10 + DigitValue(ch)))
                  ELSE IF ch = "." THEN to(FloatNumber(content[2], 0, 1))
                  ELSE to(Text(Append(i64_to_string(content[2]), ch)))
        ELSE IF is_ascii_digit(ch)
             THEN LET v == f64_add(<<content[2], content[3]>>,
                                   f64(DigitValue(ch), content[4]))
                  IN  to(FloatNumber(v[1], v[2], content[4] + 1))
             ELSE to(Text(Append(f64_to_string(<<content[2], content[3]>>), ch)))

\* Python objects handed to and returned by the interpreter
None == <<"None">>
PyLong(n) == <<"int", n>>
PyFloat(v) == <<"float", v[1], v[2]>>
PyString(s) == <<"str", s>>
PyList(items) == <<"list", items>>
PyModule == <<"module">>

\* try_to_object that binds no formula value at all
try_to_object_without_formula_values(content) ==
    IF content[1] = "Text" THEN PyString(content[2])
    ELSE IF content[1] = "Number" THEN PyLong(content[2])
    ELSE IF content[1] = "FloatNumber" THEN PyFloat(<<content[2], content[3]>>)
    ELSE None

\* try_to_object that binds a formula without a value as the number 0
try_to_object_with_zero_for_no_value(content) ==
    IF content[1] = "Empty" THEN None
    ELSE IF content[1] = "Text" THEN PyString(content[2])
    ELSE IF content[1] = "Number" THEN PyLong(content[2])
    ELSE IF content[1] = "FloatNumber" THEN PyFloat(<<content[2], content[3]>>)
    ELSE LET value == content[2].value
         IN  IF value[1] = "String" THEN PyString(value[2])
             ELSE IF value[1] = "Number" THEN PyLong(value[2])
             ELSE IF value[1] = "FloatNumber" THEN PyFloat(<<value[2], value[3]>>)
             ELSE PyLong(0)

\* CellContent::try_to_object
try_to_object(content) ==
    IF content[1] = "Empty" THEN None
    ELSE IF content[1] = "Text" THEN PyString(content[2])
    ELSE IF content[1] = "Number" THEN PyLong(content[2])
    ELSE IF content[1] = "FloatNumber" THEN PyFloat(<<content[2], content[3]>>)
    ELSE LET value == content[2].value
         IN  IF value[1] = "String" THEN PyString(value[2])
             ELSE IF value[1] = "Number" THEN PyLong(value[2])
             ELSE IF value[1] = "FloatNumber" THEN PyFloat(<<value[2], value[3]>>)
             ELSE None

\* impl From<&PyAny> for Value
Value_from(it) ==
    IF it[1] = "float" THEN ValueFloatNumber(it[2], it[3])
    ELSE IF it[1] = "int" THEN ValueNumber(it[2])
    ELSE IF it[1] = "str" THEN ValueString(it[2])
    ELSE ValueError

\* byte order of the characters (str::partial_cmp compares bytes); the entry
\* "grave" holds the place of the grave accent, code 96
Ascii == <<" ", "!", "\"", "#", "$", "%", "&", "'", "(", ")", "*", "+", ",", "-", ".", "/",
           "0", "1", "2", "3", "4", "5", "6", "7", "8", "9", ":", ";", "<", "=", ">", "?",
           "@", "A", "B", "C", "D", "E", "F", "G", "H", "I", "J", "K", "L", "M", "N", "O",
           "P", "Q", "R", "S", "T", "U", "V", "W", "X", "Y", "Z", "[", "\\", "]", "^", "_",
           "grave", "a", "b", "c", "d", "e", "f", "g", "h", "i", "j", "k", "l", "m", "n", "o",
           "p", "q", "r", "s", "t", "u", "v", "w", "x", "y", "z", "{", "|", "}", "~">>

char_code(ch) ==
    IF ch = "\t" THEN 9 ELSE IF ch = "\n" THEN 10 ELSE IF ch = "\r" THEN 13
    ELSE 31 + (CHOOSE i \in 1..Len(Ascii) : Ascii[i] = ch)

ord(a, b) == IF a < b THEN "Less" ELSE IF a > b THEN "Greater" ELSE "Equal"

reverse(o) == IF o = "Less" THEN "Greater" ELSE IF o = "Greater" THEN "Less" ELSE o

RECURSIVE str_cmp(_, _)
str_cmp(a, b) ==
    IF a = <<>> THEN (IF b = <<>> THEN "Equal" ELSE "Less")
    ELSE IF b = <<>> THEN "Greater"
    ELSE IF Head(a) = Head(b) THEN str_cmp(Tail(a), Tail(b))
    ELSE ord(char_code(Head(a)), char_code(Head(b)))

f64_cmp(a, b) == ord(a[1] * pow10(b[2]), b[1] * pow10(a[2]))

\* impl Ord for CellContent (cmp is partial_cmp, lines 189-279).  kind is the
\* arm a content selects: its own variant, or for a formula that of its value.
content_kind(c) ==
    IF c[1] = "Formula"
    THEN (IF c[2].value[1] \in {"Empty", "Error"} THEN "FormulaNoValue"
          ELSE IF c[2].value[1] = "String" THEN "FormulaString" ELSE "Numeric")
    ELSE IF c[1] \in {"Number", "FloatNumber"} THEN "Numeric" ELSE c[1]

content_number(c) ==
    LET v == IF c[1] = "Formula" THEN c[2].value ELSE c
    IN  IF v[1] = "Number" THEN <<v[2], 0>> ELSE <<v[2], v[3]>>

\* cmp in which two texts are compared as str::cmp orders them, not reversed
cmp_texts_not_reversed(self, other) ==
    LET kind == content_kind(self)
    IN  IF kind = "Empty" THEN (IF other = Empty THEN "Equal" ELSE "Less")
        ELSE IF kind = "Text"
             THEN (IF other[1] = "Text" THEN str_cmp(self[2], other[2])
                   ELSE "Greater")
        ELSE IF kind = "FormulaString"
             THEN (IF other[1] = "Text"
                   THEN str_cmp(self[2].value[2], other[2])
                   ELSE "Greater")
        ELSE IF kind = "FormulaNoValue" THEN "Less"
        ELSE IF other[1] = "Empty" THEN "Greater"
             ELSE IF other[1] = "Text" THEN "Less"
             ELSE IF content_kind(other) = "Numeric"
                  THEN f64_cmp(content_number(self), content_number(other))
             ELSE IF content_kind(other) = "FormulaString" THEN "Less"
             ELSE "Greater"

\* cmp in which two formulas without a value are equal to each other
cmp_no_values_equal(self, other) ==
    LET kind == content_kind(self)
    IN  IF kind = "Empty" THEN (IF other = Empty THEN "Equal" ELSE "Less")
        ELSE IF kind = "Text"
             THEN (IF other[1] = "Text" THEN reverse(str_cmp(self[2], other[2]))
                   ELSE "Greater")
        ELSE IF kind = "FormulaString"
             THEN (IF other[1] = "Text"
                   THEN reverse(str_cmp(self[2].value[2], other[2]))
                   ELSE "Greater")
        ELSE IF kind = "FormulaNoValue"
             THEN (IF content_kind(other) = "FormulaNoValue" THEN "Equal" ELSE "Less")
        ELSE IF other[1] = "Empty" THEN "Greater"
             ELSE IF other[1] = "Text" THEN "Less"
             ELSE IF content_kind(other) = "Numeric"
                  THEN f64_cmp(content_number(self), content_number(other))
             ELSE IF content_kind(other) = "FormulaString" THEN "Less"
             ELSE "Greater"

\* cmp in which a number compared with a Text is Greater
cmp_numbers_above_text(self, other) ==
    LET kind == content_kind(self)
    IN  IF kind = "Empty" THEN (IF other = Empty THEN "Equal" ELSE "Less")
        ELSE IF kind = "Text"
             THEN (IF other[1] = "Text" THEN reverse(str_cmp(self[2], other[2]))
                   ELSE "Greater")
        ELSE IF kind = "FormulaString"
             THEN (IF other[1] = "Text"
                   THEN reverse(str_cmp(self[2].value[2], other[2]))
                   ELSE "Greater")
        ELSE IF kind = "FormulaNoValue" THEN "Less"
        ELSE IF other[1] = "Empty" THEN "Greater"
             ELSE IF other[1] = "Text" THEN "Greater"
             ELSE IF content_kind(other) = "Numeric"
                  THEN f64_cmp(content_number(self), content_number(other))
             ELSE IF content_kind(other) = "FormulaString" THEN "Less"
             ELSE "Greater"

cmp(self, other) ==
    LET kind == content_kind(self)
    IN  IF kind = "Empty" THEN (IF other = Empty THEN "Equal" ELSE "Less")
        ELSE IF kind = "Text"
             THEN (IF other[1] = "Text" THEN reverse(str_cmp(self[2], other[2]))
                   ELSE "Greater")
        ELSE IF kind = "FormulaString"
             THEN (IF other[1] = "Text"
                   THEN reverse(str_cmp(self[2].value[2], other[2]))
                   ELSE "Greater")
        ELSE IF kind = "FormulaNoValue" THEN "Less"
        ELSE IF other[1] = "Empty" THEN "Greater"
             ELSE IF other[1] = "Text" THEN "Less"
             ELSE IF content_kind(other) = "Numeric"
                  THEN f64_cmp(content_number(self), content_number(other))
             ELSE IF content_kind(other) = "FormulaString" THEN "Less"
             ELSE "Greater"

(***************************************************************************)
(* The interpreter call of Formula::evaluate (formula.rs:86-134)            *)
(***************************************************************************)
\* str::split(ch)
RECURSIVE split(_, _, _, _)
split(s, ch, piece, acc) ==
    IF s = <<>> THEN Append(acc, piece)
    ELSE IF Head(s) = ch THEN split(Tail(s), ch, <<>>, Append(acc, piece))
         ELSE split(Tail(s), ch, Append(piece, Head(s)), acc)

\* str::trim
RECURSIVE trim(_)
trim(s) ==
    IF s = <<>> THEN s
    ELSE IF is_whitespace(Head(s)) THEN trim(Tail(s))
    ELSE IF is_whitespace(s[Len(s)]) THEN trim(SubSeq(s, 1, Len(s) - 1))
    ELSE s

\* The object the globals built at lines 93-127 hold for the name id, None
\* when the name is unbound.  Later set_item calls replace earlier ones: the
\* column lists come last, the cells before them, the two modules first.
globals_get(id, f, spreadsheet) ==
    LET cells == spreadsheet.cells
        named == {i \in 1..Len(cells) :
                    /\ cells[i].position # f.position
                    /\ id \in {name(cells[i].position), to_lowercase(name(cells[i].position))}
                    /\ try_to_object(cells[i].content) # None}
        columns == {i \in 0..(spreadsheet.width - 1) :
                      id \in {to_column_name(i), to_lowercase(to_column_name(i))}}
        listed(c) == /\ c.position[1] \in columns
                     /\ c.position # f.position
                     /\ try_to_object(c.content) # None
        list == SelectSeq(cells, listed)
    IN  IF columns # {} THEN PyList([i \in 1..Len(list) |-> try_to_object(list[i].content)])
        ELSE IF named # {}
             THEN try_to_object(cells[CHOOSE i \in named : \A j \in named : j <= i].content)
        ELSE IF id \in {<<"r", "a", "n", "d", "o", "m">>, <<"m", "a", "t", "h">>} THEN PyModule
        ELSE None

\* Python's binary +; None for a TypeError
py_add(a, b) ==
    IF a[1] = "int" /\ b[1] = "int" THEN PyLong(a[2] + b[2])
    ELSE IF a[1] \in {"int", "float"} /\ b[1] \in {"int", "float"}
         THEN PyFloat(f64_add(IF a[1] = "int" THEN <<a[2], 0>> ELSE <<a[2], a[3]>>,
                              IF b[1] = "int" THEN <<b[2], 0>> ELSE <<b[2], b[3]>>))
    ELSE IF a[1] = b[1] /\ a[1] \in {"str", "list"} THEN <<a[1], a[2] \o b[2]>>
    ELSE None

\* Python's list[from:to] for indices that are not negative
py_slice(list, from, to) ==
    SubSeq(list, from + 1, IF to < Len(list) THEN to ELSE Len(list))

\* The subscription name[from:to] that parse_raw writes for a range
\* (formula.rs:237-243, 251-256): the slice of the list bound to the name;
\* None for a SyntaxError, a NameError or a TypeError.
py_subscription(a, f, spreadsheet) ==
    LET parts == split(a, "[", <<>>, <<>>)
        inner == IF Len(parts) = 2 /\ parts[2] # <<>> /\ parts[2][Len(parts[2])] = "]"
                 THEN split(SubSeq(parts[2], 1, Len(parts[2]) - 1), ":", <<>>, <<>>)
                 ELSE <<>>
        digits(d) == d # <<>> /\ \A i \in 1..Len(d) : is_ascii_digit(d[i])
    IN  IF Len(inner) = 2 /\ digits(inner[1]) /\ digits(inner[2])
           /\ parts[1] # <<>> /\ \A i \in 1..Len(parts[1]) : is_ascii_alphabetic(parts[1][i])
        THEN Apply(LAMBDA list :
                     IF list[1] = "list"
                     THEN PyList(py_slice(list[2], DigitsValue(inner[1], 0),
                                          DigitsValue(inner[2], 0)))
                     ELSE None,
                   globals_get(parts[1], f, spreadsheet))
        ELSE None

\* Python's builtin sum over a list of int objects; None for the TypeError
\* that a str item raises
RECURSIVE py_builtin_sum(_, _)
py_builtin_sum(items, acc) ==
    IF items = <<>> THEN PyLong(acc)
    ELSE IF Head(items)[1] = "int" THEN py_builtin_sum(Tail(items), acc + Head(items)[2])
    ELSE None

\* One operand: a decimal literal, a name looked up in the globals, the
\* slice of a range, or the builtin sum called on such a slice; None for a
\* SyntaxError, a NameError or a TypeError.  (The names of this model are
\* cell and column names; of Python's builtins only sum is called.)
py_operand(a, f, spreadsheet) ==
    IF a # <<>> /\ \A i \in 1..Len(a) : is_ascii_digit(a[i])
    THEN (IF Len(a) = 1 \/ Head(a) # "0" \/ DigitsValue(a, 0) = 0
          THEN PyLong(DigitsValue(a, 0)) ELSE None)
    ELSE IF /\ a # <<>>
            /\ is_ascii_alphabetic(Head(a)) \/ Head(a) = "_"
            /\ \A i \in 1..Len(a) :
                  is_ascii_alphabetic(a[i]) \/ is_ascii_digit(a[i]) \/ a[i] = "_"
         THEN globals_get(a, f, spreadsheet)
    ELSE IF Len(a) > 5 /\ SubSeq(a, 1, 4) = <<"s", "u", "m", "(">> /\ a[Len(a)] = ")"
         THEN Apply(LAMBDA list : IF list = None THEN None ELSE py_builtin_sum(list[2], 0),
                    py_subscription(SubSeq(a, 5, Len(a) - 1), f, spreadsheet))
    ELSE IF a # <<>> /\ a[Len(a)] = "]" THEN py_subscription(a, f, spreadsheet)
    ELSE None

\* The operands of a sum from the left.  An empty piece before an operand is a
\* unary plus on it; acc is <<>> before the first operand.
RECURSIVE py_sum(_, _, _, _, _, _)
py_sum(pieces, i, acc, unary, f, spreadsheet) ==
    IF i > Len(pieces) THEN (IF unary \/ acc = <<>> THEN None ELSE acc)
    ELSE IF pieces[i] = <<>> THEN py_sum(pieces, i + 1, acc, TRUE, f, spreadsheet)
    ELSE Apply(LAMBDA it :
                 IF it = None \/ (unary /\ it[1] \notin {"int", "float"}) THEN None
                 ELSE Apply(LAMBDA sum :
                              IF sum = None THEN None
                              ELSE py_sum(pieces, i + 1, sum, FALSE, f, spreadsheet),
                            IF acc = <<>> THEN it ELSE py_add(acc, it)),
               py_operand(pieces[i], f, spreadsheet))

\* py.eval(&self.parsed, Some(globals), None) for the expressions of this
\* model, sums of decimal literals and names: the object, or None for Err(_)
py_eval(parsed, f, spreadsheet) ==
    Apply(LAMBDA pieces :
            py_sum([i \in 1..Len(pieces) |-> trim(pieces[i])], 1, <<>>, FALSE, f, spreadsheet),
          split(parsed, "+", <<>>, <<>>))

\* Formula::evaluate(&mut self, spreadsheet)
Formula_evaluate(f, spreadsheet) ==
    [f EXCEPT !.value =
        IF f.parsed = <<>> THEN ValueEmpty
        ELSE Apply(LAMBDA it : IF it = None THEN ValueError ELSE Value_from(it),
                   py_eval(f.parsed, f, spreadsheet))]

(***************************************************************************)
(* The spreadsheet (lib.rs)                                                 *)
(***************************************************************************)
\* a Cell; its unit plays no part in the operations modelled
GridCell(content, position) == [content |-> content, position |-> position]

\* CellPosition::from_index
from_index(index, width) == <<index % width, index \div width>>

\* Spreadsheet::new; the path (None) is left out of the record
new(width, height) ==
    [current_cell |-> <<0, 0>>,
     width |-> width,
     height |-> height,
     cells |-> [i \in 1..(width * height) |-> GridCell(Empty, from_index(i - 1, width))],
     column_widths |-> [i \in 1..width |-> 10],
     used_cells |-> <<0, 0>>,
     fixed_rows |-> 0]

\* Spreadsheet::index, 0-based as in the code; cells[index] is cells[index + 1] here
index(s, cell_position) == cell_position[2] * s.width + cell_position[1]

\* an evaluation that leaves a formula alone once its value is Error
Cell_evaluate_keeping_error(cell, spreadsheet) ==
    IF cell.content[1] = "Formula" /\ cell.content[2].value # ValueError
    THEN [cell EXCEPT !.content = Formula(Formula_evaluate(cell.content[2], spreadsheet))]
    ELSE cell

\* Cell::evaluate / CellContent::evaluate
Cell_evaluate(cell, spreadsheet) ==
    IF cell.content[1] = "Formula"
    THEN [cell EXCEPT !.content = Formula(Formula_evaluate(cell.content[2], spreadsheet))]
    ELSE cell

\* evaluate in which each cell is evaluated against the cells as they are by
\* then, the earlier ones already holding their new values
RECURSIVE evaluate_in_place_loop(_, _)
evaluate_in_place_loop(s, i) ==
    IF i > Len(s.cells) THEN s
    ELSE Apply(LAMBDA next : evaluate_in_place_loop(next, i + 1),
               [s EXCEPT !.cells[i] = Cell_evaluate(s.cells[i], s)])

evaluate_in_place(s) == evaluate_in_place_loop(s, 1)

\* for cell in &mut cells { cell.evaluate(self) }: cell i of the clone is
\* evaluated against self, whose cells the loop leaves alone
RECURSIVE evaluate_loop(_, _, _)
evaluate_loop(cells, i, self) ==
    IF i > Len(cells) THEN cells
    ELSE Apply(LAMBDA next : evaluate_loop(next, i + 1, self),
               [cells EXCEPT ![i] = Cell_evaluate(cells[i], self)])

\* Spreadsheet::evaluate: the clone is evaluated cell by cell against self,
\* then stored
evaluate(s) == [s EXCEPT !.cells = evaluate_loop(s.cells, 1, s)]

\* for _ in 0..n { result.evaluate() }
RECURSIVE evaluate_times(_, _)
evaluate_times(s, n) ==
    IF n = 0 THEN s ELSE Apply(LAMBDA next : evaluate_times(next, n - 1), evaluate(s))

\* an ingestion that runs one pass per column only
passes_per_column(width, height, needs_evaluation) ==
    IF needs_evaluation THEN width ELSE 0

\* if needs_evaluation { for _ in 0..width * height { ... } }: the number of passes
ingestion_passes(width, height, needs_evaluation) ==
    IF needs_evaluation THEN width * height ELSE 0

\* the cells of one line of load_csv: [cells, needs_evaluation, panicked]
RECURSIVE load_csv_line(_, _, _, _)
load_csv_line(fields, column, row, acc) ==
    IF column >= Len(fields) \/ acc.panicked THEN acc
    ELSE Apply(LAMBDA cell :
                 Apply(LAMBDA content :
                         load_csv_line(fields, column + 1, row,
                             [cells |-> IF content.ok
                                        THEN Append(acc.cells,
                                                    GridCell(content.val, <<column, row>>))
                                        ELSE acc.cells,
                              needs_evaluation |->
                                  acc.needs_evaluation \/ (cell # <<>> /\ Head(cell) = "="),
                              panicked |-> ~content.ok]),
                       CellContent_parse(cell, <<column, row>>, <<usize_MAX, usize_MAX>>)),
               trim(fields[column + 1]))

\* the line loop of load_csv: [cells, needs_evaluation, panicked, width, row]
RECURSIVE load_csv_lines(_, _, _)
load_csv_lines(ls, n, acc) ==
    IF n > Len(ls) \/ acc.panicked THEN acc
    ELSE IF ls[n] = <<>> \/ \A i \in 1..Len(ls[n]) : is_whitespace(ls[n][i])
         THEN load_csv_lines(ls, n + 1, acc)
    ELSE Apply(LAMBDA fields :
                 Apply(LAMBDA l :
                         load_csv_lines(ls, n + 1,
                             [cells |-> l.cells, needs_evaluation |-> l.needs_evaluation,
                              panicked |-> l.panicked,
                              width |-> IF Len(fields) > acc.width THEN Len(fields)
                                        ELSE acc.width,
                              row |-> acc.row + 1]),
                       load_csv_line(fields, 0, acc.row,
                           [cells |-> acc.cells, needs_evaluation |-> acc.needs_evaluation,
                            panicked |-> FALSE])),
               split(ls[n], ",", <<>>, <<>>))

\* Spreadsheet::load_csv: [panicked, sheet, passes]; passes counts the
\* evaluate() calls of lines 97-101, panicked covers the assert_eq! of line 102
load_csv(csv) ==
    Apply(LAMBDA l :
            LET result == [current_cell |-> <<0, 0>>, width |-> l.width, height |-> l.row,
                           cells |-> l.cells, column_widths |-> [i \in 1..l.width |-> 10],
                           used_cells |-> <<0, 0>>, fixed_rows |-> 0]
                passes == ingestion_passes(l.width, l.row, l.needs_evaluation)
            IN  IF l.panicked THEN [panicked |-> TRUE, sheet |-> result, passes |-> 0]
                ELSE [panicked |-> l.width * l.row # Len(l.cells),
                      sheet |-> evaluate_times(result, passes),
                      passes |-> passes],
          load_csv_lines(lines(csv), 1,
              [cells |-> <<>>, needs_evaluation |-> FALSE, panicked |-> FALSE,
               width |-> 0, row |-> 0]))

\* CellPosition::parse
RECURSIVE CellPosition_parse(_, _, _)
CellPosition_parse(text, column, row) ==
    IF text = <<>> THEN Ok(<<column, row>>)
    ELSE IF is_ascii_alphabetic(Head(text))
         THEN CellPosition_parse(Tail(text), column * 26 + LetterDigit(Head(text)), row)
    ELSE IF is_ascii_digit(Head(text))
         THEN CellPosition_parse(Tail(text), column, row * 10 + DigitValue(Head(text)))
    ELSE Err

\* Spreadsheet::load_xlsx on a worksheet the reader has returned:
\* [width, height] its highest column and row, cell[<<x, y>>] the cell there
\* ([present, value, is_formula], present FALSE when the worksheet has none),
\* active_cell the name of its active cell.  Column dimensions are taken to
\* be absent (unwrap_or(10)).  [panicked, sheet, passes] as for load_csv.
load_xlsx(worksheet) ==
    LET width == worksheet.width
        height == worksheet.height
        current_cell == CellPosition_parse(worksheet.active_cell, 0, 0)
        at(i) == worksheet.cell[from_index(i - 1, width)]
        needs_evaluation ==
            \E i \in 1..(width * height) :
                /\ at(i).present
                /\ at(i).is_formula \/ (at(i).value # <<>> /\ Head(at(i).value) = "=")
        passes == ingestion_passes(width, height, needs_evaluation)
    IN  Apply(LAMBDA content :
                LET result == [current_cell |-> current_cell.val, width |-> width,
                               height |-> height,
                               cells |-> [i \in 1..(width * height) |->
                                             GridCell(content[i].val,
                                                      from_index(i - 1, width))],
                               column_widths |-> [i \in 1..width |-> 10],
                               used_cells |-> <<width, height>>, fixed_rows |-> 0]
                IN  IF ~current_cell.ok \/ \E i \in 1..(width * height) : ~content[i].ok
                    THEN [panicked |-> TRUE, sheet |-> new(0, 0), passes |-> 0]
                    ELSE [panicked |-> FALSE, sheet |-> evaluate_times(result, passes),
                          passes |-> passes],
              [i \in 1..(width * height) |->
                  IF ~at(i).present THEN Ok(Empty)
                  ELSE CellContent_parse(at(i).value, from_index(i - 1, width),
                                         <<width, height>>)])

\* CellPosition::cmp: by row, then by column
position_cmp(a, b) == IF a[2] # b[2] THEN ord(a[2], b[2]) ELSE ord(a[1], b[1])

\* a sort that leaves the cells in the order they were pushed
sort_keeping_order(cells) == cells

\* self.cells.sort(): the stable sort by position (Ord for Cell)
RECURSIVE sort(_)
sort(cells) ==
    IF cells = <<>> THEN cells
    ELSE Apply(LAMBDA sorted :
                 LET c == cells[Len(cells)]
                     k == Cardinality({i \in 1..Len(sorted) :
                             position_cmp(sorted[i].position, c.position) # "Greater"})
                 IN  SubSeq(sorted, 1, k) \o <<c>> \o SubSeq(sorted, k + 1, Len(sorted)),
               sort(SubSeq(cells, 1, Len(cells) - 1)))

\* a resize that keeps every content at its index in cells instead of at its
\* position
resize_keeping_indices(s, width, height) ==
    [s EXCEPT !.cells = [i \in 1..(width * height) |->
                            GridCell(IF i <= Len(s.cells) THEN s.cells[i].content ELSE Empty,
                                     <<(i - 1) % width, (i - 1) \div width>>)],
              !.column_widths = @ \o [i \in 1..(width - s.width) |-> 10],
              !.width = width,
              !.height = height]

\* Spreadsheet::resize(width, height) for a size that is not smaller
resize(s, width, height) ==
    LET added == height - s.height
        below == [k \in 1..(width * added) |->
                    GridCell(Empty, <<(k - 1) \div added, s.height + ((k - 1) % added)>>)]
        beside == [k \in 1..((width - s.width) * s.height) |->
                     GridCell(Empty, <<s.width + ((k - 1) \div s.height), (k - 1) % s.height>>)]
    IN  [s EXCEPT !.cells = Apply(sort, s.cells \o below \o beside),
                  !.column_widths = @ \o [i \in 1..(width - s.width) |-> 10],
                  !.width = width,
                  !.height = height]

\* str::contains
contains(it, text) == str_find(it, 1, text) # 0

\* find whose scan begins with the cell under the cursor (no skip(1))
find_from_cursor(s, text) ==
    LET at == index(s, s.current_cell)
        n == Len(s.cells)
        cells == SubSeq(s.cells, at + 1, n) \o SubSeq(s.cells, 1, at)
        hits == {k \in 1..Len(cells) :
                    cells[k].content[1] = "Text" /\ contains(cells[k].content[2], text)}
    IN  IF at > n THEN [panicked |-> TRUE, found |-> FALSE, position |-> <<>>]
        ELSE IF hits = {} THEN [panicked |-> FALSE, found |-> FALSE, position |-> <<>>]
        ELSE [panicked |-> FALSE, found |-> TRUE,
              position |-> cells[CHOOSE k \in hits : \A j \in hits : k <= j].position]

\* Spreadsheet::find(text): [panicked, found, position].  The cells scanned
\* are self.cells[index..] without its first, then self.cells[..index]; the
\* slices abort when index is beyond the cells.
find(s, text) ==
    LET at == index(s, s.current_cell)
        n == Len(s.cells)
        cells == SubSeq(s.cells, at + 2, n) \o SubSeq(s.cells, 1, at)
        hits == {k \in 1..Len(cells) :
                    cells[k].content[1] = "Text" /\ contains(cells[k].content[2], text)}
    IN  IF at > n THEN [panicked |-> TRUE, found |-> FALSE, position |-> <<>>]
        ELSE IF hits = {} THEN [panicked |-> FALSE, found |-> FALSE, position |-> <<>>]
        ELSE [panicked |-> FALSE, found |-> TRUE,
              position |-> cells[CHOOSE k \in hits : \A j \in hits : k <= j].position]

\* Spreadsheet::move_cursor(x, y): [sheet, result]
move_cursor(s, x, y) ==
    LET nx == s.current_cell[1] + x
        ny == s.current_cell[2] + y
        cx == IF nx < 0 THEN 0 ELSE IF nx >= s.width THEN s.width - 1 ELSE nx
        cy == IF ny < 0 THEN 0 ELSE IF ny >= s.height THEN s.height - 1 ELSE ny
    IN  [sheet |-> [s EXCEPT !.current_cell = <<cx, cy>>],
         result |-> nx = cx /\ ny = cy]

\* Spreadsheet::input_char(ch): [sheet, panicked]
input_char(s, ch) ==
    LET used == <<IF s.current_cell[1] > s.used_cells[1] THEN s.current_cell[1]
                  ELSE s.used_cells[1],
                  IF s.current_cell[2] > s.used_cells[2] THEN s.current_cell[2]
                  ELSE s.used_cells[2]>>
        i == index(s, s.current_cell) + 1
    IN  IF i > Len(s.cells)
        THEN [sheet |-> [s EXCEPT !.used_cells = used], panicked |-> TRUE]
        ELSE LET r == CellContent_input_char(s.cells[i].content, ch, s.current_cell)
             IN  [sheet |-> [s EXCEPT !.used_cells = used, !.cells[i].content = r.content],
                  panicked |-> r.panicked]

\* Spreadsheet::update_cell_at(cell_position, cell_content): [sheet, panicked]
update_cell_at(s, cell_position, cell_content) ==
    LET i == index(s, cell_position) + 1
    IN  IF i > Len(s.cells) THEN [sheet |-> s, panicked |-> TRUE]
        ELSE [sheet |-> [s EXCEPT !.cells[i].content = cell_content], panicked |-> FALSE]

\* Spreadsheet::clear_current_cell
clear_current_cell(s) == update_cell_at(s, s.current_cell, Empty)

\* Spreadsheet::fix_rows
fix_rows(s, fixed_rows) == [s EXCEPT !.fixed_rows = fixed_rows]

\* SpreadsheetRowIter: the rows of the grid, each a slice of width cells
as_rows(s) == [r \in 1..s.height |-> SubSeq(s.cells, (r - 1) * s.width + 1, r * s.width)]

\* Ord for CellContent is a total order on the keys of these rows
total_order(rows, column) ==
    LET n == Len(rows)
        key(i) == rows[i][column + 1].content
    IN  /\ \A i, j \in 1..n : cmp(key(i), key(j)) = reverse(cmp(key(j), key(i)))
        /\ \A i, j, k \in 1..n :
              (cmp(key(i), key(j)) # "Greater" /\ cmp(key(j), key(k)) # "Greater")
                  => cmp(key(i), key(k)) # "Greater"

\* rows.sort_by_cached_key(|r| &r[column].content): the orders the sort may
\* leave the rows in.  When Ord for CellContent orders the keys consistently
\* this is the one stable ascending order; when it does not, the order is
\* unspecified (and the sort may abort, see sort_column).
sort_by_cached_key(rows, column) ==
    LET n == Len(rows)
        key(i) == rows[i][column + 1].content
        consistent == total_order(rows, column)
        orders == {p \in [1..n -> 1..n] : \A i, j \in 1..n : i # j => p[i] # p[j]}
        stable(p) == \A i, j \in 1..n :
                        i < j => \/ cmp(key(p[i]), key(p[j])) = "Less"
                                 \/ cmp(key(p[i]), key(p[j])) = "Equal" /\ p[i] < p[j]
    IN  {[i \in 1..n |-> rows[p[i]]] :
            p \in {q \in orders : consistent => stable(q)}}

RECURSIVE flatten(_)
flatten(rows) == IF rows = <<>> THEN <<>> ELSE Head(rows) \o flatten(Tail(rows))

\* sort_column that leaves the sorted rows as the sort returned them, without
\* rows.reverse()
sort_column_without_reverse(s, column) ==
    LET fixed == IF s.fixed_rows < s.height THEN s.fixed_rows ELSE s.height
        rows == SubSeq(as_rows(s), fixed + 1, s.height)
    IN  IF \/ s.width * s.height > Len(s.cells)
           \/ Len(rows) >= 2 /\ column >= s.width
        THEN {[sheet |-> s, panicked |-> TRUE]}
        ELSE {[sheet |-> [s EXCEPT !.cells =
                            LET cells == flatten(SubSeq(as_rows(s), 1, fixed)) \o flatten(sorted)
                            IN  [i \in 1..Len(cells) |->
                                    [cells[i] EXCEPT !.position = from_index(i - 1, s.width)]]],
               panicked |-> FALSE] :
                 sorted \in IF Len(rows) < 2 THEN {rows} ELSE sort_by_cached_key(rows, column)}
             \cup (IF Len(rows) >= 2 /\ ~total_order(rows, column)
                   THEN {[sheet |-> s, panicked |-> TRUE]} ELSE {})

\* sort_column that sorts every row, the fixed ones included
sort_column_with_fixed_rows(s, column) ==
    LET rows == as_rows(s)
    IN  IF \/ s.width * s.height > Len(s.cells)
           \/ Len(rows) >= 2 /\ column >= s.width
        THEN {[sheet |-> s, panicked |-> TRUE]}
        ELSE {[sheet |-> [s EXCEPT !.cells =
                            LET cells == flatten([i \in 1..Len(sorted) |->
                                                    sorted[Len(sorted) + 1 - i]])
                            IN  [i \in 1..Len(cells) |->
                                    [cells[i] EXCEPT !.position = from_index(i - 1, s.width)]]],
               panicked |-> FALSE] :
                 sorted \in IF Len(rows) < 2 THEN {rows} ELSE sort_by_cached_key(rows, column)}
             \cup (IF Len(rows) >= 2 /\ ~total_order(rows, column)
                   THEN {[sheet |-> s, panicked |-> TRUE]} ELSE {})

\* Spreadsheet::sort_column(column): the set of its outcomes [sheet, panicked].
\* It aborts when a row slice or the key index is out of range (the key is
\* only taken when there are two rows or more to sort).
sort_column(s, column) ==
    LET fixed == IF s.fixed_rows < s.height THEN s.fixed_rows ELSE s.height
        rows == SubSeq(as_rows(s), fixed + 1, s.height)
    IN  IF \/ s.width * s.height > Len(s.cells)
           \/ Len(rows) >= 2 /\ column >= s.width
        THEN {[sheet |-> s, panicked |-> TRUE]}
        ELSE {[sheet |-> [s EXCEPT !.cells =
                            LET cells == flatten(SubSeq(as_rows(s), 1, fixed))
                                            \o flatten([i \in 1..Len(sorted) |->
                                                          sorted[Len(sorted) + 1 - i]])
                            IN  [i \in 1..Len(cells) |->
                                    [cells[i] EXCEPT !.position = from_index(i - 1, s.width)]]],
               panicked |-> FALSE] :
                 sorted \in IF Len(rows) < 2 THEN {rows} ELSE sort_by_cached_key(rows, column)}
             \cup (IF Len(rows) >= 2 /\ ~total_order(rows, column)
                   THEN {[sheet |-> s, panicked |-> TRUE]} ELSE {})

(***************************************************************************)
NoFormula == [position |-> <<0, 0>>, parsed |-> <<>>, raw |-> <<>>, references |-> <<>>,
              value |-> ValueEmpty]
NotMoved == [called |-> FALSE, to |-> <<0, 0>>, result |-> Err]
NoCsv == [call |-> "none"]
NoSheet == [width |-> 0, height |-> 0]
NoOp == [op |-> "none"]

FormulaIdle == formula = NoFormula /\ moved = NotMoved
CsvIdle == csv_s = <<>> /\ csv_out = NoCsv
SheetIdle == sheet = NoSheet /\ last_op = NoOp

(***************************************************************************)
(* Relocating formulas: Spreadsheet::recommended_cell_content on a formula  *)
(* cell.  A formula parsed from raw text at some position of a grid is      *)
(* moved to another position of that grid.                                  *)
(***************************************************************************)
MaxRawTokens == 3
FormulaWidth == 3
FormulaHeight == 2

\* The pieces the raw texts are concatenated from: cell names, a lower-case
\* and an upper-case column name, a number, an operator and the range colon.
RawTokens == { <<"A", "0">>, <<"B", "0">>, <<"a">>, <<"B">>, <<"1">>, <<"+">>, <<":">> }

RECURSIVE RawTexts(_)
RawTexts(n) ==
    IF n = 0 THEN {<<>>}
    ELSE LET shorter == RawTexts(n - 1)
         IN  shorter \cup {r \o t : r \in shorter, t \in RawTokens}

FormulaSize == <<FormulaWidth, FormulaHeight>>
FormulaPositions == (0..(FormulaWidth - 1)) \X (0..(FormulaHeight - 1))

InitFormula ==
    /\ \E raw \in RawTexts(MaxRawTokens), p \in FormulaPositions :
          /\ parse_formula(raw, p, FormulaSize).ok
          /\ formula = parse_formula(raw, p, FormulaSize).val
    /\ moved = NotMoved
    /\ CsvIdle /\ SheetIdle
    /\ panicked = FALSE

\* A reference lies in the grid
in_grid(r, size) ==
    IF r[1] = "Cell" THEN r[2] \in 0..(size[1] - 1) /\ r[3] \in 0..(size[2] - 1)
    ELSE IF r[1] = "Row" THEN r[2] \in 0..(size[2] - 1)
    ELSE r[2] \in 0..(size[1] - 1)

shifted_references(f, position) ==
    [i \in 1..Len(f.references) |->
        shifted(f.references[i], position[1] - f.position[1], position[2] - f.position[2])]

\* recommended_cell_content, lib.rs:354-356: the formula of the source cell is
\* moved to the cursor.  Calls whose offset would take a reference below zero
\* (the `as usize` casts of moved_to would wrap) are left out of the model.
MovedTo(position) ==
    /\ ~panicked
    /\ ~moved.called
    /\ \A i \in 1..Len(formula.references) :
          \A k \in 2..Len(formula.references[i]) :
              shifted_references(formula, position)[i][k] >= 0
    /\ LET result == moved_to(formula, position, FormulaSize)
       IN  /\ moved' = [called |-> TRUE, to |-> position, result |-> result]
           /\ panicked' = ~result.ok
    /\ UNCHANGED <<formula, csv_s, csv_out, sheet, last_op>>

NextFormula == \E position \in FormulaPositions : MovedTo(position)

SpecFormula == InitFormula /\ [][NextFormula]_vars

\* C1: a formula parsed from raw text and moved to a position for which every
\* shifted reference stays inside the grid is moved without aborting, the
\* references of the result are the original ones shifted by the offset, and
\* parsing the rewritten raw text again gives exactly that shifted list.
C1_MovedToShiftsEveryReference ==
    (/\ moved.called
     /\ \A i \in 1..Len(formula.references) :
           in_grid(shifted_references(formula, moved.to)[i], FormulaSize))
    => /\ moved.result.ok
       /\ moved.result.val.references = shifted_references(formula, moved.to)
       /\ parse_raw(moved.result.val.raw, FormulaSize).refs
             = shifted_references(formula, moved.to)

(***************************************************************************)
(* Reading delimited text: the two passes of csv.rs and CsvFile::from_str   *)
(* on every text of up to MaxCsvLen characters over CsvChars.               *)
(***************************************************************************)
MaxCsvLen == 4

CsvChars == {"a", ",", ";", "\t", QUOTE, "\n"}

RECURSIVE CsvTexts(_)
CsvTexts(n) ==
    IF n = 0 THEN {<<>>}
    ELSE LET shorter == CsvTexts(n - 1)
         IN  shorter \cup {Append(t, ch) : t \in shorter, ch \in CsvChars}

InitCsv ==
    /\ csv_s \in CsvTexts(MaxCsvLen)
    /\ csv_out = NoCsv
    /\ FormulaIdle /\ SheetIdle
    /\ panicked = FALSE

\* parse_size_of_csv(s, sep), as from_str and the test call it
ParseSizeOfCsv(sep) ==
    /\ ~panicked /\ csv_out = NoCsv
    /\ csv_out' = [call |-> "parse_size_of_csv", sep |-> sep,
                   result |-> parse_size_of_csv(csv_s, sep)]
    /\ UNCHANGED <<csv_s, formula, moved, sheet, last_op, panicked>>

\* parse_csv(s, sep, width, height) with the size the sizing pass returned for
\* sep, as from_str (line 47) and the test (line 234) call it
ParseCsv(sep) ==
    /\ ~panicked /\ csv_out = NoCsv
    /\ LET size == parse_size_of_csv(csv_s, sep)
       IN  /\ size.ok
           /\ LET result == parse_csv(csv_s, sep, size.val[1], size.val[2])
              IN  /\ csv_out' = [call |-> "parse_csv", sep |-> sep, size |-> size.val,
                                 result |-> result]
                  /\ panicked' = (result.outcome = "panic")
    /\ UNCHANGED <<csv_s, formula, moved, sheet, last_op>>

\* CsvFile::from_str(s)
FromStr ==
    /\ ~panicked /\ csv_out = NoCsv
    /\ \E size \in sort_unstable_by(sizes(csv_s)) :
          LET result == from_str_sorted(csv_s, size)
          IN  /\ csv_out' = [call |-> "from_str", size |-> size, result |-> result]
              /\ panicked' = (result.outcome = "panic")
    /\ UNCHANGED <<csv_s, formula, moved, sheet, last_op>>

NextCsv ==
    \/ \E i \in 1..Len(KNOWN_SEPERATORS) : ParseSizeOfCsv(KNOWN_SEPERATORS[i])
    \/ \E i \in 1..Len(KNOWN_SEPERATORS) : ParseCsv(KNOWN_SEPERATORS[i])
    \/ FromStr

SpecCsv == InitCsv /\ [][NextCsv]_vars

\* --- what the claims speak about -----------------------------------------
\* the characters the scanner is fed: the lines of s one after the other
RECURSIVE concat(_)
concat(ls) == IF ls = <<>> THEN <<>> ELSE Head(ls) \o concat(Tail(ls))

scanned(s) == concat(lines(s))

\* number of characters fed to the scanner when line n of s has been read
line_end(s, n) == Len(concat(SubSeq(lines(s), 1, n)))

\* the scanner state after k characters, by the transitions of csv_match
\* alone; "Failed" once the third arm has reported InvalidEscaping
RECURSIVE state_after(_, _, _)
state_after(chars, k, sep) ==
    IF k = 0 THEN "NewCell"
    ELSE LET before == state_after(chars, k - 1, sep)
         IN  IF before = "Failed" THEN "Failed"
             ELSE LET m == csv_match(before, chars[k], sep)
                  IN  IF m.err THEN "Failed" ELSE m.state

count(s, ch) == Cardinality({i \in 1..Len(s) : s[i] = ch})

RECURSIVE max_of(_)
max_of(S) ==
    IF S = {} THEN 0
    ELSE LET x == CHOOSE x \in S : TRUE
             m == max_of(S \ {x})
         IN  IF x > m THEN x ELSE m

\* C6: from_str hands to the parse pass a separator whose sizing succeeded and
\* whose (width, height) is the greatest of the successful ones; it returns an
\* error only when sizing failed for all three separators, and that error is
\* the one recorded for the comma.
C6_FromStrSelectsGreatestSize ==
    csv_out.call = "from_str" =>
        LET all == sizes(csv_s)
            chosen == csv_out.size[1]
        IN  IF \E i \in 1..Len(all) : all[i].size.ok
            THEN /\ \E i \in 1..Len(all) : chosen = all[i]
                 /\ chosen.size.ok
                 /\ \A i \in 1..Len(all) :
                       all[i].size.ok => tuple_cmp(all[i].size.val, chosen.size.val) # "Greater"
                 /\ csv_out.result.outcome # "err"
                 /\ csv_out.result.outcome = "ok" =>
                       /\ csv_out.result.seperator = chosen.sep
                       /\ <<csv_out.result.width, csv_out.result.height>> = chosen.size.val
            ELSE /\ csv_out.result.outcome = "err"
                 /\ csv_out.result.error = NoSuccessfullParse(all[1].size.val)

\* C6 witness: from_str ran on a text for which one separator failed its
\* sizing and the two others succeeded with different sizes, and it returned
\* the file read with a separator that is not the first candidate.
C6_Witness ==
    /\ csv_out.call = "from_str"
    /\ csv_out.result.outcome = "ok"
    /\ csv_out.result.seperator # KNOWN_SEPERATORS[1]
    /\ LET all == sizes(csv_s)
       IN  /\ \E i \in 1..Len(all) : ~all[i].size.ok
           /\ \E i, j \in 1..Len(all) :
                 /\ all[i].size.ok /\ all[j].size.ok
                 /\ all[i].size.val # all[j].size.val

\* C7: whenever the sizing pass returned (width, height) for a separator, the
\* parse pass with that separator and size ends without its field-count
\* assertion failing and yields exactly width*height fields.
C7_ParsePassYieldsWidthTimesHeight ==
    csv_out.call = "parse_csv" =>
        /\ csv_out.result.outcome = "ok"
        /\ Len(csv_out.result.cells) = csv_out.size[1] * csv_out.size[2]

\* C8: for text without a quote character the sizing pass returns as width one
\* plus the largest number of separator characters on a line, and as height
\* the number of non-empty lines.
C8_WidthCountsEverySeparator ==
    (/\ csv_out.call = "parse_size_of_csv"
     /\ count(csv_s, QUOTE) = 0
     /\ \E n \in 1..Len(lines(csv_s)) : lines(csv_s)[n] # <<>>)
    => csv_out.result =
          Ok(<<1 + max_of({count(lines(csv_s)[n], csv_out.sep) : n \in 1..Len(lines(csv_s))}),
               Cardinality({n \in 1..Len(lines(csv_s)) : lines(csv_s)[n] # <<>>})>>)

\* C9: the sizing pass reports UnfinishedEscaping exactly when a line ends
\* while the scanner is inside a quoted span (state InCellEscaped); a quoted
\* field closed on its own line is accepted.
C9_UnfinishedEscapingOnlyAtLineEnd ==
    csv_out.call = "parse_size_of_csv" =>
        ( csv_out.result = Error(UnfinishedEscaping)
          <=> \E n \in 1..Len(lines(csv_s)) :
                 /\ state_after(scanned(csv_s), line_end(csv_s, n), csv_out.sep) = "InCellEscaped"
                 /\ \A m \in 1..(n - 1) :
                       state_after(scanned(csv_s), line_end(csv_s, m), csv_out.sep)
                          # "InCellEscaped" )

\* the positions at which a pass reads a quote while in state InCell: the scan
\* has come there (no InvalidEscaping before, and no state InCellEscaped, at
\* which the sizing pass returns)
quotes_in_cell(s, sep) ==
    {i \in 1..Len(scanned(s)) :
        /\ scanned(s)[i] = QUOTE
        /\ state_after(scanned(s), i - 1, sep) = "InCell"
        /\ \A k \in 1..(i - 1) : state_after(scanned(s), k, sep) # "InCellEscaped"}

\* C10 as stated: a quote read in state InCell makes the scan with that
\* separator fail with InvalidEscaping, in the sizing pass and in the parse pass.
C10_QuoteInCellIsInvalidEscaping ==
    /\ (csv_out.call = "parse_size_of_csv" /\ quotes_in_cell(csv_s, csv_out.sep) # {})
          => csv_out.result = Error(InvalidEscaping)
    /\ (csv_out.call = "parse_csv" /\ quotes_in_cell(csv_s, csv_out.sep) # {})
          => (csv_out.result.outcome = "err" /\ csv_out.result.error = InvalidEscaping)

\* C10 as amended: a quote read in state InCell is an ordinary character of
\* the field.  The scanner stays in InCell and neither pass reports
\* InvalidEscaping; when every quote of the text is of this kind the sizing
\* pass succeeds, and the parse pass keeps each of them in the text of a field.
C10_QuoteInCellIsOrdinaryCharacter ==
    LET s == scanned(csv_s)
        all_in_cell(sep) == Cardinality(quotes_in_cell(csv_s, sep)) = count(csv_s, QUOTE)
    IN  /\ csv_out.call = "parse_size_of_csv" =>
             /\ \A i \in quotes_in_cell(csv_s, csv_out.sep) :
                   state_after(s, i, csv_out.sep) = "InCell"
             /\ csv_out.result # Error(InvalidEscaping)
             /\ (count(csv_s, QUOTE) > 0 /\ all_in_cell(csv_out.sep)) => csv_out.result.ok
        /\ csv_out.call = "parse_csv" =>
             /\ csv_out.result.outcome # "err"
             /\ (all_in_cell(csv_out.sep) /\ csv_out.result.outcome = "ok") =>
                   count(concat(csv_out.result.cells), QUOTE) = count(csv_s, QUOTE)

\* C10 witness: both passes have read a quote in the middle of an unquoted
\* field; here the parse pass returned the field with the quote in it.
C10_Witness ==
    /\ csv_out.call = "parse_csv"
    /\ quotes_in_cell(csv_s, csv_out.sep) # {}
    /\ csv_out.result.outcome = "ok"
    /\ \E i \in 1..Len(csv_out.result.cells) : count(csv_out.result.cells[i], QUOTE) > 0

(***************************************************************************)
(* Evaluation passes.  A grid is either built cell by cell, with            *)
(* update_cell_at on Spreadsheet::new and evaluate() passes in between, or  *)
(* ingested by load_csv / load_xlsx and then evaluated further.             *)
(*                                                                          *)
(* last_op records the operation that ran last and, for the claims, the     *)
(* cells before it (before), the cells as the last operation other than     *)
(* evaluate left them (base), the evaluate() passes since then (passes),    *)
(* the number of updates, and for an ingestion the passes it ran (ran) and  *)
(* whether the reader flagged a cell as a formula.                          *)
(***************************************************************************)
EvalWidth == 2
EvalHeight == 2
MaxUpdates == 2
MaxPasses == 3
MaxCsvFields == 3
MaxWorksheetCells == 2

\* the texts committed to a cell
EvalTexts == { <<"1">>, <<"=", "1">>, <<"=", "A", "1", "+", "1">>,
               <<"=", "B", "1", "+", "1">> }

\* the fields the ingested texts are made of
CsvFields == { <<>>, <<"1">>, <<"=", "1">>, <<"=", "A", "0", "+", "1">>,
               <<"=", "B", "0", "+", "1">>, <<"=", "A", "1", "+", "1">> }

\* up to n fields, each two joined by a comma or a line break
RECURSIVE CsvOfFields(_)
CsvOfFields(n) ==
    IF n <= 1 THEN CsvFields
    ELSE LET shorter == CsvOfFields(n - 1)
         IN  shorter \cup {t \o <<j>> \o f : t \in shorter, j \in {",", "\n"}, f \in CsvFields}

\* a worksheet cell: absent, or a value with the reader's is_formula flag
XlsxCells ==
    {[present |-> FALSE, value |-> <<>>, is_formula |-> FALSE],
     [present |-> TRUE, value |-> <<"1">>, is_formula |-> FALSE],
     [present |-> TRUE, value |-> <<"1">>, is_formula |-> TRUE],
     [present |-> TRUE, value |-> <<"=", "1">>, is_formula |-> FALSE],
     [present |-> TRUE, value |-> <<"=", "A", "0", "+", "1">>, is_formula |-> FALSE],
     [present |-> TRUE, value |-> <<"=", "A", "1", "+", "1">>, is_formula |-> FALSE]}

\* the worksheets of up to MaxWorksheetCells cells whose highest column and
\* row are (width, height): some cell is present in the last column and row
Worksheets ==
    UNION {
        {[width |-> w, height |-> h, cell |-> c, active_cell |-> <<"A", "1">>] :
            c \in {d \in [(0..(w - 1)) \X (0..(h - 1)) -> XlsxCells] :
                      /\ \E y \in 0..(h - 1) : d[<<w - 1, y>>].present
                      /\ \E x \in 0..(w - 1) : d[<<x, h - 1>>].present}} :
        <<w, h>> \in {s \in (1..MaxWorksheetCells) \X (1..MaxWorksheetCells) :
                        s[1] * s[2] <= MaxWorksheetCells}}

InitEval ==
    /\ sheet = new(EvalWidth, EvalHeight)
    /\ last_op = [op |-> "new", before |-> <<>>, base |-> sheet.cells, passes |-> 0,
                  updates |-> 0, ran |-> 0, flagged |-> FALSE]
    /\ FormulaIdle /\ CsvIdle
    /\ panicked = FALSE

\* Spreadsheet::load_csv(csv) when the program starts on a file (main.rs:103)
LoadCsv(csv) ==
    /\ ~panicked /\ last_op.op = "new"
    /\ \E r \in {load_csv(csv)} :
           /\ sheet' = r.sheet
           /\ panicked' = r.panicked
           /\ last_op' = [op |-> "load_csv", before |-> sheet.cells, base |-> r.sheet.cells,
                          passes |-> 0, updates |-> 0, ran |-> r.passes, flagged |-> FALSE]
    /\ UNCHANGED <<formula, moved, csv_s, csv_out>>

\* Spreadsheet::load_xlsx(path), on the worksheet the reader returned (main.rs:100)
LoadXlsx(worksheet) ==
    /\ ~panicked /\ last_op.op = "new"
    /\ \E r \in {load_xlsx(worksheet)} :
           /\ sheet' = r.sheet
           /\ panicked' = r.panicked
           /\ last_op' = [op |-> "load_xlsx", before |-> sheet.cells, base |-> r.sheet.cells,
                          passes |-> 0, updates |-> 0, ran |-> r.passes,
                          flagged |-> \E p \in DOMAIN worksheet.cell : worksheet.cell[p].is_formula]
    /\ UNCHANGED <<formula, moved, csv_s, csv_out>>

\* Spreadsheet::update_cell_at(cell_position, content), the content parsed
\* from a text as the cell editor parses it (main.rs:157-164).  Texts are
\* committed before the first pass, to grids that were not ingested.
UpdateCellAt(cell_position, text) ==
    /\ ~panicked /\ last_op.op \in {"new", "update_cell_at"}
    /\ last_op.updates < MaxUpdates
    /\ cell_position[1] < sheet.width /\ cell_position[2] < sheet.height
    /\ \E content \in {CellContent_parse(text, cell_position,
                                          <<sheet.width, sheet.height>>)} :
           IF content.ok
           THEN \E r \in {update_cell_at(sheet, cell_position, content.val)} :
                    /\ sheet' = r.sheet
                    /\ panicked' = r.panicked
                    /\ last_op' = [last_op EXCEPT !.op = "update_cell_at",
                                                  !.before = sheet.cells,
                                                  !.base = r.sheet.cells, !.passes = 0,
                                                  !.updates = @ + 1]
           ELSE /\ panicked' = TRUE
                /\ UNCHANGED <<sheet, last_op>>
    /\ UNCHANGED <<formula, moved, csv_s, csv_out>>

\* Spreadsheet::evaluate()
Evaluate ==
    /\ ~panicked /\ last_op.passes < MaxPasses
    /\ sheet' = evaluate(sheet)
    /\ last_op' = [last_op EXCEPT !.op = "evaluate", !.before = sheet.cells, !.passes = @ + 1]
    /\ UNCHANGED <<formula, moved, csv_s, csv_out, panicked>>

NextEval ==
    \/ \E csv \in CsvOfFields(MaxCsvFields) : LoadCsv(csv)
    \/ \E worksheet \in Worksheets : LoadXlsx(worksheet)
    \/ \E cell_position \in (0..(EvalWidth - 1)) \X (0..(EvalHeight - 1)), text \in EvalTexts :
          UpdateCellAt(cell_position, text)
    \/ Evaluate

SpecEval == InitEval /\ [][NextEval]_vars

\* --- what the claims speak about -----------------------------------------
formulas(s) == {i \in 1..Len(s.cells) : s.cells[i].content[1] = "Formula"}

\* the cells whose value the formula of cell i reads: a cell it names (its own
\* name makes it read itself), and for a column it names the cells of that
\* column other than itself
reads(s, i) ==
    IF i \notin formulas(s) THEN {}
    ELSE LET f == s.cells[i].content[2]
             pieces == split(f.parsed, "+", <<>>, <<>>)
             ids == {trim(pieces[k]) : k \in 1..Len(pieces)}
         IN  {j \in 1..Len(s.cells) :
                \/ {name(s.cells[j].position), to_lowercase(name(s.cells[j].position))}
                      \cap ids # {}
                \/ /\ j # i
                   /\ {to_column_name(s.cells[j].position[1]),
                       to_lowercase(to_column_name(s.cells[j].position[1]))} \cap ids # {}}

RECURSIVE reaches(_, _, _)
reaches(s, i, n) ==
    IF n = 0 THEN reads(s, i)
    ELSE LET r == reaches(s, i, n - 1)
         IN  r \cup UNION {reads(s, j) : j \in r}

acyclic(s) == \A i \in formulas(s) : i \notin reaches(s, i, Len(s.cells))

value_at(s, cell_position) == s.cells[index(s, cell_position) + 1].content[2].value

\* C2: after an evaluate() pass every cell is what evaluating the cell of
\* before the pass against the grid of before the pass gives: no formula has
\* seen a value written earlier in the same pass.
C2_PassReadsPrePassValues ==
    last_op.op = "evaluate" =>
        /\ Len(sheet.cells) = Len(last_op.before)
        /\ \A i \in 1..Len(sheet.cells) :
              sheet.cells[i] =
                  Cell_evaluate(last_op.before[i], [sheet EXCEPT !.cells = last_op.before])

\* C2 witness: a pass has run in which some formula would have got another
\* value had it read the values this pass has written.
C2_Witness ==
    /\ last_op.op = "evaluate"
    /\ \E i \in formulas(sheet) :
          /\ Cell_evaluate(last_op.before[i], sheet) # sheet.cells[i]
          /\ \E j \in reads(sheet, i) : j < i /\ last_op.before[j] # sheet.cells[j]

\* C3: an ingestion that built a grid with at least one formula and acyclic
\* dependencies has run exactly width*height passes and left a fixed point
\* (one more pass changes no cell); an ingestion that built no formula, and
\* was given no cell flagged as one, has run no pass.
C3_IngestionReachesFixedPoint ==
    (last_op.op \in {"load_csv", "load_xlsx"} /\ ~panicked) =>
        /\ (formulas(sheet) # {} /\ acyclic(sheet)) =>
              /\ last_op.ran = sheet.width * sheet.height
              /\ evaluate(sheet).cells = sheet.cells
        /\ (formulas(sheet) = {} /\ ~last_op.flagged) => last_op.ran = 0

\* C3 witness: an ingestion built a grid of several rows in which a formula
\* reads another formula stored after it, and every formula has a number.
C3_Witness ==
    /\ last_op.op \in {"load_csv", "load_xlsx"} /\ ~panicked
    /\ sheet.height >= 2
    /\ acyclic(sheet)
    /\ \E i, j \in formulas(sheet) : i < j /\ j \in reads(sheet, i)
    /\ \A i \in formulas(sheet) : sheet.cells[i].content[2].value[1] = "Number"

C4_A1 == cell_name_to_position(<<"A", "1">>).val
C4_B1 == cell_name_to_position(<<"B", "1">>).val

\* the grid held, when it was last updated, the freshly parsed "=1" in A1 and
\* the freshly parsed "=A1+1" in B1
C4_FreshFormulas ==
    /\ last_op.op \in {"update_cell_at", "evaluate"}
    /\ Len(last_op.base) = sheet.width * sheet.height
    /\ C4_B1[1] < sheet.width /\ C4_B1[2] < sheet.height
    /\ last_op.base[index(sheet, C4_A1) + 1].content =
          CellContent_parse(<<"=", "1">>, C4_A1, <<sheet.width, sheet.height>>).val
    /\ last_op.base[index(sheet, C4_B1) + 1].content =
          CellContent_parse(<<"=", "A", "1", "+", "1">>, C4_B1,
                            <<sheet.width, sheet.height>>).val

\* C4: with the fresh "=1" in A1 and "=A1+1" in B1, the value of B1 is not 2
\* after one evaluate() pass and is 2 after two passes and after every later one.
C4_SecondPassSettlesB1 ==
    C4_FreshFormulas =>
        /\ last_op.passes = 1 => value_at(sheet, C4_B1) # ValueNumber(2)
        /\ last_op.passes >= 2 => value_at(sheet, C4_B1) = ValueNumber(2)

\* C4 witness: three passes have run on the two fresh formulas.
C4_Witness ==
    /\ C4_FreshFormulas
    /\ last_op.passes >= 3
    /\ value_at(sheet, C4_A1) = ValueNumber(1)

(***************************************************************************)
(* The grid under its editing operations, from Spreadsheet::new(w, h).      *)
(* last_op records the operation that ran last, the number of operations,   *)
(* the cells before the last one, and whether a resize has added cells.     *)
(***************************************************************************)
MaxGridWidth == 2
MaxGridHeight == 2
MaxOps == 3
MaxCellChars == 2

GridChars == {"1", "a", "=", "."}
GridTexts == { <<"b">>, <<"=", "A", "0", "+", "1">> }
GridOffsets == { <<1, 0>>, <<-1, 0>>, <<0, 1>>, <<0, -1>> }

\* the characters input_char has put into a content
typed(content) ==
    IF content[1] = "Empty" THEN 0
    ELSE IF content[1] = "Text" THEN Len(content[2])
    ELSE IF content[1] = "Number" THEN Len(i64_to_string(content[2]))
    ELSE IF content[1] = "FloatNumber"
         THEN Len(i64_to_string(content[2] \div pow10(content[3]))) + content[4]
    ELSE Len(content[2].raw) + 1

InitGrid ==
    /\ \E w \in 1..MaxGridWidth, h \in 1..MaxGridHeight : sheet = new(w, h)
    /\ last_op = [op |-> "new", ops |-> 0, before |-> <<>>, grown |-> FALSE]
    /\ FormulaIdle /\ CsvIdle
    /\ panicked = FALSE

GridReady == ~panicked /\ last_op.ops < MaxOps

GridStep(op, r) ==
    /\ sheet' = r.sheet
    /\ panicked' = r.panicked
    /\ last_op' = [op |-> op, ops |-> last_op.ops + 1, before |-> sheet.cells,
                   grown |-> last_op.grown \/ Len(r.sheet.cells) > Len(sheet.cells)]
    /\ UNCHANGED <<formula, moved, csv_s, csv_out>>

\* resize(width, height) to a size not smaller than the current one
Resize(width, height) ==
    /\ GridReady
    /\ width >= sheet.width /\ height >= sheet.height
    /\ GridStep("resize", [sheet |-> resize(sheet, width, height), panicked |-> FALSE])

SortColumn(column) ==
    /\ GridReady
    /\ \E r \in sort_column(sheet, column) : GridStep("sort_column", r)

FixRows(fixed_rows) ==
    /\ GridReady
    /\ GridStep("fix_rows", [sheet |-> fix_rows(sheet, fixed_rows), panicked |-> FALSE])

InputChar(ch) ==
    /\ GridReady
    /\ typed(sheet.cells[index(sheet, sheet.current_cell) + 1].content) < MaxCellChars
    /\ GridStep("input_char", input_char(sheet, ch))

ClearCurrentCell ==
    /\ GridReady
    /\ GridStep("clear_current_cell", clear_current_cell(sheet))

\* update_cell_at with a content parsed for that position; the position may
\* lie outside the grid
GridUpdateCellAt(cell_position, text) ==
    /\ GridReady
    /\ GridStep("update_cell_at",
                update_cell_at(sheet, cell_position,
                    CellContent_parse(text, cell_position, <<sheet.width, sheet.height>>).val))

MoveCursor(x, y) ==
    /\ GridReady
    /\ GridStep("move_cursor", [sheet |-> move_cursor(sheet, x, y).sheet, panicked |-> FALSE])

GridEvaluate ==
    /\ GridReady
    /\ GridStep("evaluate", [sheet |-> evaluate(sheet), panicked |-> FALSE])

NextGrid ==
    \/ \E width \in 1..MaxGridWidth, height \in 1..MaxGridHeight : Resize(width, height)
    \/ \E column \in 0..(MaxGridWidth - 1) : SortColumn(column)
    \/ \E fixed_rows \in 0..MaxGridHeight : FixRows(fixed_rows)
    \/ \E ch \in GridChars : InputChar(ch)
    \/ ClearCurrentCell
    \/ \E cell_position \in (0..(MaxGridWidth - 1)) \X (0..(MaxGridHeight - 1)),
          text \in GridTexts : GridUpdateCellAt(cell_position, text)
    \/ \E offset \in GridOffsets : MoveCursor(offset[1], offset[2])
    \/ GridEvaluate

SpecGrid == InitGrid /\ [][NextGrid]_vars

\* C5: the grid holds width*height cells, and the cell stored at index
\* row*width + column has position (column, row).
C5_CellsAreRowMajor ==
    /\ Len(sheet.cells) = sheet.width * sheet.height
    /\ \A row \in 0..(sheet.height - 1), column \in 0..(sheet.width - 1) :
          sheet.cells[row * sheet.width + column + 1].position = <<column, row>>

\* C5 witness: sort_column has carried a content to another row of a grid
\* that an earlier resize had widened or lengthened.
C5_Witness ==
    /\ last_op.op = "sort_column" /\ ~panicked /\ last_op.grown
    /\ Len(last_op.before) = Len(sheet.cells)
    /\ \E i, j \in 1..Len(sheet.cells) :
          /\ i # j
          /\ last_op.before[i].content # Empty
          /\ sheet.cells[j].content = last_op.before[i].content
          /\ sheet.cells[i].content # last_op.before[i].content
          /\ sheet.cells[j].position # last_op.before[i].position

(***************************************************************************)
(* Typing into the current cell (tabelle-tui, main.rs:222-226, and the      *)
(* Delete key, main.rs:190-193), on a grid from Spreadsheet::new with the   *)
(* cursor put on one of its cells.  last_op records the key pressed last    *)
(* (ch), the content of the cell before it (before) and the keys pressed    *)
(* since the cell was last Empty (keys).                                    *)
(***************************************************************************)
MaxKeys == 3

EditChars == {"1", "5", "a", ".", "="}

\* Spreadsheet::set_cursor
set_cursor(s, cell_position) == [s EXCEPT !.current_cell = cell_position]

\* the content of the cell under the cursor
current_content(s) == s.cells[index(s, s.current_cell) + 1].content

InitEdit ==
    /\ \E w \in 1..MaxGridWidth, h \in 1..MaxGridHeight :
          \E p \in (0..(w - 1)) \X (0..(h - 1)) : sheet = set_cursor(new(w, h), p)
    /\ last_op = [op |-> "new", ch |-> "", before |-> Empty, keys |-> <<>>]
    /\ FormulaIdle /\ CsvIdle
    /\ panicked = FALSE

\* KeyCode::Char(ch): input_char(ch), then evaluate() (then render)
KeyChar(ch) ==
    /\ ~panicked /\ Len(last_op.keys) < MaxKeys
    /\ \E r \in {input_char(sheet, ch)} :
          /\ sheet' = IF r.panicked THEN r.sheet ELSE evaluate(r.sheet)
          /\ panicked' = r.panicked
    /\ last_op' = [op |-> "input_char", ch |-> ch, before |-> current_content(sheet),
                   keys |-> Append(last_op.keys, ch)]
    /\ UNCHANGED <<formula, moved, csv_s, csv_out>>

\* KeyCode::Delete: clear_current_cell() (then render)
KeyDelete ==
    /\ ~panicked /\ last_op.keys # <<>>
    /\ \E r \in {clear_current_cell(sheet)} :
          /\ sheet' = r.sheet
          /\ panicked' = r.panicked
    /\ last_op' = [op |-> "clear_current_cell", ch |-> "", before |-> current_content(sheet),
                   keys |-> <<>>]
    /\ UNCHANGED <<formula, moved, csv_s, csv_out>>

NextEdit ==
    \/ \E ch \in EditChars : KeyChar(ch)
    \/ KeyDelete

SpecEdit == InitEdit /\ [][NextEdit]_vars

\* the transition table for non-formula content: the content a cell holding
\* before shows after the character ch
C11_Table(before, ch) ==
    IF before = Empty
    THEN IF is_ascii_digit(ch) THEN Number(DigitValue(ch))
         ELSE IF ch = "." THEN FloatNumber(0, 0, 1)
         ELSE Text(<<ch>>)
    ELSE IF before[1] = "Number"
    THEN IF is_ascii_digit(ch) THEN Number(10 * before[2] + DigitValue(ch))
         ELSE IF ch = "." THEN FloatNumber(before[2], 0, 1)
         ELSE Text(i64_to_string(before[2]) \o <<ch>>)
    ELSE IF before[1] = "FloatNumber"
    THEN IF is_ascii_digit(ch)
         THEN LET v == f64_add(<<before[2], before[3]>>, f64(DigitValue(ch), before[4]))
              IN  FloatNumber(v[1], v[2], before[4] + 1)
         ELSE Text(f64_to_string(<<before[2], before[3]>>) \o <<ch>>)
    ELSE Text(before[2] \o <<ch>>)

\* C11: a character typed into a cell that holds no formula, other than '='
\* into an Empty cell, leaves in the cell what the transition table gives,
\* without aborting; the keys '1' '.' '5' typed into an Empty cell leave
\* FloatNumber(1.5, 2) and the keys '1' 'a' leave Text("1a").
C11_InputCharFollowsTable ==
    /\ (/\ last_op.op = "input_char"
        /\ last_op.before[1] # "Formula"
        /\ ~(last_op.before = Empty /\ last_op.ch = "="))
       => /\ ~panicked
          /\ current_content(sheet) = C11_Table(last_op.before, last_op.ch)
    /\ last_op.keys = <<"1", ".", "5">> => current_content(sheet) = FloatNumber(15, 1, 2)
    /\ last_op.keys = <<"1", "a">> => current_content(sheet) = Text(<<"1", "a">>)

\* C11 witness: '1' '.' '5' have been typed into a cell that is not the first
\* of its grid.
C11_Witness ==
    /\ last_op.keys = <<"1", ".", "5">>
    /\ sheet.current_cell # <<0, 0>>
    /\ current_content(sheet)[1] = "FloatNumber"

\* C12: a character typed into a cell that holds a formula is appended to the
\* raw text of the formula without aborting, and the parsed expression, the
\* references, the value and the position of the formula stay as they were.
C12_FormulaAppendsRawOnly ==
    (last_op.op = "input_char" /\ last_op.before[1] = "Formula")
    => /\ ~panicked
       /\ current_content(sheet) =
             Formula([last_op.before[2] EXCEPT !.raw = Append(@, last_op.ch)])

(***************************************************************************)
(* The content comparator, impl Ord for CellContent, on pairs of contents.  *)
(* last_op holds the two contents and, once compared, the ordering.         *)
(***************************************************************************)
MaxOrderNumber == 2

OrderStrings == { <<>>, <<"a">>, <<"b">>, <<"a", "b">> }

\* a formula holding the given value; the comparator reads nothing else of it
FormulaWith(value) == Formula([new_at(<<0, 0>>) EXCEPT !.value = value])

OrderValues ==
    {ValueEmpty, ValueError, ValueFloatNumber(15, 1)}
        \cup {ValueString(t) : t \in OrderStrings}
        \cup {ValueNumber(n) : n \in 1..MaxOrderNumber}

OrderContents ==
    {Empty, FloatNumber(15, 1, 0)}
        \cup {Text(t) : t \in OrderStrings \ {<<>>}}
        \cup {Number(n) : n \in 1..MaxOrderNumber}
        \cup {FormulaWith(v) : v \in OrderValues}

InitOrder ==
    /\ \E a, b \in OrderContents :
          last_op = [op |-> "new", self |-> a, other |-> b, result |-> "none"]
    /\ sheet = NoSheet
    /\ FormulaIdle /\ CsvIdle
    /\ panicked = FALSE

\* self.cmp(other)
Compare ==
    /\ last_op.op = "new"
    /\ last_op' = [last_op EXCEPT !.op = "cmp", !.result = cmp(last_op.self, last_op.other)]
    /\ UNCHANGED <<formula, moved, csv_s, csv_out, sheet, panicked>>

NextOrder == Compare

SpecOrder == InitOrder /\ [][NextOrder]_vars

\* c is a formula whose value is a string
has_string_value(c) == c[1] = "Formula" /\ c[2].value[1] = "String"

\* C13: a formula whose value is String(s) compares with any content c as
\* Text(s) does, and any content c compares with it as c does with Text(s).
C13_StringFormulaComparesAsText ==
    last_op.op = "cmp" =>
        /\ has_string_value(last_op.self) =>
              last_op.result = cmp(Text(last_op.self[2].value[2]), last_op.other)
        /\ has_string_value(last_op.other) =>
              last_op.result = cmp(last_op.self, Text(last_op.other[2].value[2]))

(***************************************************************************)
(* Sorting by a column: the commands fix (Command::Fix) and sort            *)
(* (Command::Sort) of commands.rs:204-217, on a grid whose column A holds   *)
(* the contents parsed from a list of texts and whose other columns hold    *)
(* the number of the row each cell was entered in.  last_op records the     *)
(* command that ran last, its argument and the grid before it.              *)
(***************************************************************************)
MaxSortRows == 4
MaxFixedRows == 2

SortTexts == { <<>>, <<"3">>, <<"1", "0">>, <<"a", "p", "p", "l", "e">>, <<"b">> }

\* the grid after the texts of keys were committed to column A from the top
\* and the row numbers to the other columns (update_cell_at on Spreadsheet::new)
sort_grid(keys) ==
    Apply(LAMBDA s :
            [s EXCEPT !.cells =
                [i \in 1..Len(s.cells) |->
                    [s.cells[i] EXCEPT !.content =
                        IF s.cells[i].position[1] = 0
                        THEN CellContent_parse(keys[s.cells[i].position[2] + 1],
                                               s.cells[i].position,
                                               <<s.width, s.height>>).val
                        ELSE Number(s.cells[i].position[2])]]],
          new(MaxGridWidth, Len(keys)))

InitSort ==
    /\ \E h \in 1..MaxSortRows : \E keys \in [1..h -> SortTexts] : sheet = sort_grid(keys)
    /\ last_op = [op |-> "new", arg |-> 0, before |-> sheet]
    /\ FormulaIdle /\ CsvIdle
    /\ panicked = FALSE

\* Command::Fix(rows): fix_rows(rows)
Fix(rows) ==
    /\ ~panicked /\ last_op.op = "new"
    /\ sheet' = fix_rows(sheet, rows)
    /\ last_op' = [op |-> "fix_rows", arg |-> rows, before |-> sheet]
    /\ UNCHANGED <<formula, moved, csv_s, csv_out, panicked>>

\* Command::Sort(column): sort_column(column)
Sort(column) ==
    /\ ~panicked /\ last_op.op # "sort_column"
    /\ \E r \in sort_column(sheet, column) :
          /\ sheet' = r.sheet
          /\ panicked' = r.panicked
    /\ last_op' = [op |-> "sort_column", arg |-> column, before |-> sheet]
    /\ UNCHANGED <<formula, moved, csv_s, csv_out>>

NextSort ==
    \/ \E rows \in 1..MaxFixedRows : Fix(rows)
    \/ \E column \in 0..MaxGridWidth : Sort(column)

SpecSort == InitSort /\ [][NextSort]_vars

\* --- what the claims speak about -----------------------------------------
\* the contents of a column, from the top row down
column_contents(s, column) ==
    [r \in 1..s.height |-> s.cells[(r - 1) * s.width + column + 1].content]

\* the contents of a row, from column A on
row_contents(s, r) == [x \in 1..s.width |-> s.cells[(r - 1) * s.width + x].content]

\* the number of rows sort_column keeps at the top
kept_rows(s) == IF s.fixed_rows < s.height THEN s.fixed_rows ELSE s.height

\* Text before Number before Empty
C14_Rank(c) == IF c[1] = "Text" THEN 1 ELSE IF c[1] = "Number" THEN 2 ELSE 3

\* C14: after sort_column(c) on a grid whose column c holds only Empty, Text
\* and Number contents, going down the rows below the fixed ones no row is
\* Less than the next one under the comparator: the texts come first, in
\* ascending order, then the numbers, the larger first, then the Empty cells.
C14_SortedTextNumberEmpty ==
    (/\ last_op.op = "sort_column"
     /\ last_op.arg < sheet.width
     /\ \A r \in 1..sheet.height :
           column_contents(last_op.before, last_op.arg)[r][1] \in {"Empty", "Text", "Number"})
    => /\ ~panicked
       /\ LET keys == column_contents(sheet, last_op.arg)
          IN  \A r \in (kept_rows(sheet) + 1)..(sheet.height - 1) :
                 /\ cmp(keys[r], keys[r + 1]) # "Less"
                 /\ C14_Rank(keys[r]) <= C14_Rank(keys[r + 1])
                 /\ (keys[r][1] = "Text" /\ keys[r + 1][1] = "Text")
                       => str_cmp(keys[r][2], keys[r + 1][2]) # "Greater"
                 /\ (keys[r][1] = "Number" /\ keys[r + 1][1] = "Number")
                       => keys[r][2] >= keys[r + 1][2]

\* C14 witness: a sort below one fixed row has changed the grid and left two
\* different texts, then a number, in the three rows it sorted.
C14_Witness ==
    /\ last_op.op = "sort_column" /\ ~panicked /\ last_op.arg = 0
    /\ sheet.fixed_rows = 1 /\ sheet.height = 4
    /\ sheet.cells # last_op.before.cells
    /\ LET keys == column_contents(sheet, 0)
       IN  /\ keys[2][1] = "Text" /\ keys[3][1] = "Text" /\ keys[2] # keys[3]
           /\ keys[4][1] = "Number"

\* the column of the example: the contents parsed from "3", "apple", the empty
\* text and "10"
C15_Column ==
    <<Number(3), Text(<<"a", "p", "p", "l", "e">>), Empty, Number(10)>>

\* sort_column(A) has run on the grid whose column A is the example's
C15_Sorted ==
    /\ last_op.op = "sort_column" /\ last_op.arg = 0
    /\ last_op.before.height = 4 /\ last_op.before.fixed_rows = 0
    /\ column_contents(last_op.before, 0) = C15_Column

\* the orders the sort may leave column A of the grid before in, before the
\* reversal
C15_BeforeReversal ==
    LET sorted == sort_by_cached_key(as_rows(last_op.before), 0)
    IN  {[r \in 1..Len(rows) |-> rows[r][1].content] : rows \in sorted}

\* C15 as stated: before the reversal the order is Empty, 10, 3, apple, and
\* the final order is apple, 3, 10, Empty.
C15_TenBeforeThree ==
    C15_Sorted =>
        /\ C15_BeforeReversal = {<<Empty, Number(10), Number(3), C15_Column[2]>>}
        /\ column_contents(sheet, 0) = <<C15_Column[2], Number(3), Number(10), Empty>>

\* C15 as amended: the numbers are ordered by value.  Before the reversal the
\* order is Empty, 3, 10, apple, and the final order is apple, 10, 3, Empty.
C15_ThreeBeforeTen ==
    C15_Sorted =>
        /\ ~panicked
        /\ C15_BeforeReversal = {<<Empty, Number(3), Number(10), C15_Column[2]>>}
        /\ column_contents(sheet, 0) = <<C15_Column[2], Number(10), Number(3), Empty>>

\* C15 witness: the example's column has been sorted, and every row has moved.
C15_Witness ==
    /\ C15_Sorted /\ ~panicked
    /\ \A r \in 1..4 : row_contents(sheet, r) # row_contents(last_op.before, r)

\* C16: sort_column(c) leaves width, height, cursor, fixed_rows and the
\* column widths as they were and the first fixed_rows rows (all rows when
\* there are no more) with their contents in place; the rows below are the
\* rows that were below, in some order, each with its contents in the columns
\* they were in.
C16_SortKeepsFixedRowsAndRowsWhole ==
    last_op.op = "sort_column" =>
        LET b == last_op.before
            below == (kept_rows(b) + 1)..b.height
        IN  /\ sheet.width = b.width /\ sheet.height = b.height
            /\ sheet.current_cell = b.current_cell
            /\ sheet.fixed_rows = b.fixed_rows
            /\ sheet.column_widths = b.column_widths
            /\ Len(sheet.cells) = Len(b.cells)
            /\ \A r \in 1..kept_rows(b) : row_contents(sheet, r) = row_contents(b, r)
            /\ \E p \in [below -> below] :
                  /\ \A i, j \in below : i # j => p[i] # p[j]
                  /\ \A r \in below : row_contents(sheet, r) = row_contents(b, p[r])

\* C16 witness: a sort has kept a fixed first row that the order would have
\* moved down (its key is Empty, a row below holds a text) and has exchanged
\* rows below it.
C16_Witness ==
    /\ last_op.op = "sort_column" /\ ~panicked /\ last_op.arg = 0
    /\ sheet.fixed_rows = 1 /\ sheet.height >= 3
    /\ column_contents(sheet, 0)[1] = Empty
    /\ \E r \in 2..sheet.height : column_contents(sheet, 0)[r][1] = "Text"
    /\ \E r \in 2..sheet.height : row_contents(sheet, r) # row_contents(last_op.before, r)

(***************************************************************************)
(* Moving the cursor: Spreadsheet::move_cursor on a grid from               *)
(* Spreadsheet::new, with offsets as the arrow keys, PageUp and PageDown    *)
(* (tabelle, main.rs:576-598) and the fill and clear commands               *)
(* (commands.rs:229-264) pass them.  last_op records the offset, the cursor *)
(* before the call and the value returned.                                  *)
(***************************************************************************)
MaxStep == 2

InitCursor ==
    /\ \E w \in 1..MaxGridWidth, h \in 1..MaxGridHeight : sheet = new(w, h)
    /\ last_op = [op |-> "new", x |-> 0, y |-> 0, before |-> <<0, 0>>, result |-> TRUE]
    /\ FormulaIdle /\ CsvIdle
    /\ panicked = FALSE

\* self.spreadsheet.move_cursor(x, y), the returned value kept
MoveCursorBy(x, y) ==
    /\ \E r \in {move_cursor(sheet, x, y)} :
          /\ sheet' = r.sheet
          /\ last_op' = [op |-> "move_cursor", x |-> x, y |-> y,
                         before |-> sheet.current_cell, result |-> r.result]
    /\ UNCHANGED <<formula, moved, csv_s, csv_out, panicked>>

NextCursor == \E x, y \in (0 - MaxStep)..MaxStep : MoveCursorBy(x, y)

SpecCursor == InitCursor /\ [][NextCursor]_vars

\* v brought into 0..(size - 1)
C17_Clamped(v, size) == IF v < 0 THEN 0 ELSE IF v > size - 1 THEN size - 1 ELSE v

\* C17: move_cursor(dx, dy) leaves the cursor at the old position plus
\* (dx, dy), each axis clamped into the grid, and returns true exactly when
\* the cursor is not where it was before the call.
C17_ReturnsWhetherCursorMoved ==
    last_op.op = "move_cursor" =>
        /\ sheet.current_cell = <<C17_Clamped(last_op.before[1] + last_op.x, sheet.width),
                                  C17_Clamped(last_op.before[2] + last_op.y, sheet.height)>>
        /\ last_op.result <=> sheet.current_cell # last_op.before

(***************************************************************************)
(* Searching: the find command (Command::Find, commands.rs:193-203)         *)
(* repeated with one needle on a grid of up to MaxFindCells cells.          *)
(* last_op records the needle, the cursor before the last search, what the  *)
(* search returned and the positions the searches have moved the cursor to. *)
(***************************************************************************)
MaxFindCells == 4

FindNeedle == <<"a">>

\* two texts with the needle in them, one without, and a formula whose value
\* is the needle
FindContents ==
    {Text(<<"a">>), Text(<<"b", "a">>), Text(<<"b">>), FormulaWith(ValueString(<<"a">>))}

FindSizes == {size \in (1..MaxFindCells) \X (1..MaxFindCells) : size[1] * size[2] <= MaxFindCells}

\* the grid of that size holding the contents in row-major order
find_grid(size, contents) ==
    Apply(LAMBDA s : [s EXCEPT !.cells = [i \in 1..Len(s.cells) |->
                                            [s.cells[i] EXCEPT !.content = contents[i]]]],
          new(size[1], size[2]))

InitFind ==
    /\ \E size \in FindSizes :
          \E contents \in [1..(size[1] * size[2]) -> FindContents],
             p \in (0..(size[1] - 1)) \X (0..(size[2] - 1)) :
                sheet = set_cursor(find_grid(size, contents), p)
    /\ last_op = [op |-> "new", needle |-> FindNeedle, before |-> <<0, 0>>,
                  result |-> [panicked |-> FALSE, found |-> FALSE, position |-> <<>>],
                  visited |-> <<>>]
    /\ FormulaIdle /\ CsvIdle
    /\ panicked = FALSE

\* no position occurs twice in the sequence
no_repeat(seq) == \A i, j \in 1..Len(seq) : i # j => seq[i] # seq[j]

\* Command::Find(needle): find(needle), and on Some(cell_position) set_cursor
Find ==
    /\ ~panicked
    /\ last_op.op = "new" \/ last_op.result.found
    /\ no_repeat(last_op.visited)
    /\ \E r \in {find(sheet, last_op.needle)} :
          /\ sheet' = IF r.found THEN set_cursor(sheet, r.position) ELSE sheet
          /\ panicked' = r.panicked
          /\ last_op' = [last_op EXCEPT !.op = "find", !.before = sheet.current_cell,
                                        !.result = r,
                                        !.visited = IF r.found THEN Append(@, r.position) ELSE @]
    /\ UNCHANGED <<formula, moved, csv_s, csv_out>>

NextFind == Find

SpecFind == InitFind /\ [][NextFind]_vars

\* --- what the claim speaks about ------------------------------------------
\* the positions of the Text cells that contain the needle
C18_Matches ==
    {sheet.cells[i].position : i \in {k \in 1..Len(sheet.cells) :
        /\ sheet.cells[k].content[1] = "Text"
        /\ contains(sheet.cells[k].content[2], last_op.needle)}}

\* how far the cell at p lies after the cell at from, going through the grid
\* row by row and from the last cell on to the first
C18_Distance(from, p) ==
    (index(sheet, p) - index(sheet, from)) % (sheet.width * sheet.height)

\* C18: find returns the Text cell containing the needle that comes first in
\* row-major order after the cursor, going round from the last cell to the
\* cells before the cursor, and nothing when there is none; when every
\* search moves the cursor to the cell it returned, no cell is returned a
\* second time before every Text cell containing the needle was returned.
C18_FindVisitsEveryMatchInTurn ==
    last_op.op = "find" =>
        LET others == C18_Matches \ {last_op.before}
        IN  /\ ~panicked
            /\ last_op.result.found <=> others # {}
            /\ last_op.result.found =>
                  /\ last_op.result.position \in others
                  /\ sheet.current_cell = last_op.result.position
                  /\ \A p \in others : C18_Distance(last_op.before, last_op.result.position)
                                          <= C18_Distance(last_op.before, p)
            /\ \A j \in 1..Len(last_op.visited) :
                  (\E i \in 1..(j - 1) : last_op.visited[i] = last_op.visited[j])
                      => \A p \in C18_Matches : \E i \in 1..(j - 1) : last_op.visited[i] = p

\* C18 witness: on a grid of two rows with two matching texts, a text without
\* the needle and a formula valued with it, the searches have gone round and
\* returned a cell for the second time, the cursor having started on a match.
C18_Witness ==
    /\ last_op.op = "find" /\ last_op.result.found
    /\ sheet.width = 2 /\ sheet.height = 2
    /\ Cardinality(C18_Matches) = 2
    /\ \E i \in 1..Len(sheet.cells) : sheet.cells[i].content = Text(<<"b">>)
    /\ \E i \in 1..Len(sheet.cells) : sheet.cells[i].content[1] = "Formula"
    /\ ~no_repeat(last_op.visited)
    /\ Len(last_op.visited) = 3

(***************************************************************************)
(* The used bounds and what serialize_as_csv writes, under SpecGrid.        *)
(***************************************************************************)
\* the cells serialize_as_csv writes: those it does not skip for lying
\* beyond used_cells (lib.rs:307-309)
serialized(s) ==
    SelectSeq(s.cells, LAMBDA cell : ~(cell.position[1] > s.used_cells[1]
                                        \/ cell.position[2] > s.used_cells[2]))

\* C19: every cell that holds a content lies within the used bounds
\* (used_cells.column >= its column and used_cells.row >= its row), and so
\* is among the cells serialize_as_csv writes.
C19_UsedCellsCoverWrittenCells ==
    \A i \in 1..Len(sheet.cells) :
        sheet.cells[i].content # Empty =>
            /\ sheet.used_cells[1] >= sheet.cells[i].position[1]
            /\ sheet.used_cells[2] >= sheet.cells[i].position[2]
            /\ \E k \in 1..Len(serialized(sheet)) : serialized(sheet)[k] = sheet.cells[i]

(***************************************************************************)
(* What a growing resize leaves alone, under SpecGrid.                      *)
(***************************************************************************)
\* the contents of the cells of s stored with position p
contents_at(s, p) == {s.cells[i].content : i \in {k \in 1..Len(s.cells) : s.cells[k].position = p}}

\* the number of cells of s stored with position p
cells_at(s, p) == Cardinality({k \in 1..Len(s.cells) : s.cells[k].position = p})

\* C20: a resize to a width and height not smaller than the current ones
\* leaves the content at every position the grid had, the cursor,
\* fixed_rows, used_cells and the widths of the columns it had as they
\* were; every position it adds holds Empty and every column it adds has
\* width 10.
C20_ResizeKeepsWhatWasThere ==
    [][last_op'.op = "resize" =>
        /\ sheet'.width >= sheet.width /\ sheet'.height >= sheet.height
        /\ \A p \in (0..(sheet'.width - 1)) \X (0..(sheet'.height - 1)) :
              /\ cells_at(sheet', p) = 1
              /\ contents_at(sheet', p) =
                    IF p[1] < sheet.width /\ p[2] < sheet.height THEN contents_at(sheet, p)
                    ELSE {Empty}
        /\ Len(sheet'.cells) = sheet'.width * sheet'.height
        /\ sheet'.current_cell = sheet.current_cell
        /\ sheet'.fixed_rows = sheet.fixed_rows
        /\ sheet'.used_cells = sheet.used_cells
        /\ Len(sheet'.column_widths) = sheet'.width
        /\ \A i \in 1..sheet'.width :
              sheet'.column_widths[i] = IF i <= sheet.width THEN sheet.column_widths[i] ELSE 10
        /\ ~panicked']_vars

\* C20 witness: a resize has added a column to a grid of two rows whose
\* second row held a content typed under the moved cursor.
C20_Witness ==
    /\ last_op.op = "resize"
    /\ sheet.width = 2 /\ sheet.height = 2
    /\ Len(last_op.before) = 2
    /\ last_op.before[2].content # Empty
    /\ sheet.current_cell = <<0, 1>>
    /\ sheet.used_cells = <<0, 1>>
    /\ contents_at(sheet, <<0, 1>>) = {last_op.before[2].content}
    /\ contents_at(sheet, <<1, 0>>) = {Empty}

(***************************************************************************)
(* The resize command (Command::Resize, commands.rs:218-221) with any       *)
(* width and height, smaller ones included, on a grid from                  *)
(* Spreadsheet::new.  last_op records the arguments of the last resize and  *)
(* the number of resizes.                                                   *)
(***************************************************************************)
MaxResizeSide == 3
MaxResizes == 2

\* resize aborts: width * height - self.cells.len() or
\* width - self.column_widths.len() is below zero.  With overflow checks the
\* subtraction aborts; without them it wraps and the reserve of that many
\* elements aborts with a capacity overflow.
resize_aborts(s, width, height) ==
    \/ width * height < Len(s.cells)
    \/ width < Len(s.column_widths)

\* Spreadsheet::resize(width, height) for any size: [sheet, panicked].  When
\* the height is smaller the first loop (y in self.height..height) pushes
\* nothing and the second pushes self.height cells for each added column.
resize_any(s, width, height) ==
    IF resize_aborts(s, width, height) THEN [sheet |-> s, panicked |-> TRUE]
    ELSE [sheet |-> resize(s, width, height), panicked |-> FALSE]

InitResize ==
    /\ \E w \in 1..MaxResizeSide, h \in 1..MaxResizeSide : sheet = new(w, h)
    /\ last_op = [op |-> "new", width |-> 0, height |-> 0, resizes |-> 0]
    /\ FormulaIdle /\ CsvIdle
    /\ panicked = FALSE

\* Command::Resize(width, height)
ResizeTo(width, height) ==
    /\ ~panicked /\ last_op.resizes < MaxResizes
    /\ \E r \in {resize_any(sheet, width, height)} :
          /\ sheet' = r.sheet
          /\ panicked' = r.panicked
    /\ last_op' = [op |-> "resize", width |-> width, height |-> height,
                   resizes |-> last_op.resizes + 1]
    /\ UNCHANGED <<formula, moved, csv_s, csv_out>>

NextResize == \E width, height \in 0..(MaxResizeSide + 1) : ResizeTo(width, height)

SpecResize == InitResize /\ [][NextResize]_vars

\* C21: a resize that returns leaves width * height cells, whatever the
\* arguments; otherwise it aborts.
C21_ResizeRestoresCellCountOrAborts ==
    (last_op.op = "resize" /\ ~panicked) =>
        /\ sheet.width = last_op.width /\ sheet.height = last_op.height
        /\ Len(sheet.cells) = sheet.width * sheet.height

(***************************************************************************)
(* Column names: to_column_name of an index, and column_name_to_index of    *)
(* the name it gave.  last_op records the index, the name and what          *)
(* column_name_to_index returned for it.                                    *)
(***************************************************************************)
MaxColumnIndex == 800

InitColumn ==
    /\ \E i \in 0..MaxColumnIndex :
          last_op = [op |-> "new", index |-> i, name |-> <<>>, back |-> Err]
    /\ sheet = NoSheet
    /\ FormulaIdle /\ CsvIdle
    /\ panicked = FALSE

\* column_name_to_index(&to_column_name(index))
ColumnRoundTrip ==
    /\ last_op.op = "new"
    /\ \E column \in {to_column_name(last_op.index)} :
          last_op' = [last_op EXCEPT !.op = "to_column_name", !.name = column,
                                     !.back = column_name_to_index(column)]
    /\ UNCHANGED <<formula, moved, csv_s, csv_out, sheet, panicked>>

NextColumn == ColumnRoundTrip

SpecColumn == InitColumn /\ [][NextColumn]_vars

\* C22: the name to_column_name gives for an index is read back by
\* column_name_to_index as that index.
C22_ColumnNameRoundTrip ==
    last_op.op = "to_column_name" => last_op.back = Ok(last_op.index)

\* C22 witness: an index of three letters whose letters differ has been
\* turned into its name and read back.
C22_Witness ==
    /\ last_op.op = "to_column_name"
    /\ last_op.index = 26 * 26 + 2 * 26 + 3
    /\ last_op.name = <<"B", "C", "D">>
    /\ last_op.back.ok

(***************************************************************************)
(* Cell names: cell_name_to_position on texts of up to MaxCellNameLen       *)
(* characters.  last_op records the text and what the function returned.    *)
(***************************************************************************)
MaxCellNameLen == 3

CellNameChars == {"A", "C", "x", "0", "1", "2", "+"}

CellNameTexts == UNION {[1..n -> CellNameChars] : n \in 0..MaxCellNameLen}

InitCellName ==
    /\ \E cell \in CellNameTexts : last_op = [op |-> "new", cell |-> cell, result |-> Err]
    /\ sheet = NoSheet
    /\ FormulaIdle /\ CsvIdle
    /\ panicked = FALSE

\* cell_name_to_position(cell), as the goto, fill and clear commands call it
\* (commands.rs:135-137)
CellNameToPosition ==
    /\ last_op.op = "new"
    /\ last_op' = [last_op EXCEPT !.op = "cell_name_to_position",
                                  !.result = cell_name_to_position(last_op.cell)]
    /\ UNCHANGED <<formula, moved, csv_s, csv_out, sheet, panicked>>

NextCellName == CellNameToPosition

SpecCellName == InitCellName /\ [][NextCellName]_vars

\* the number of ASCII letters the text begins with
C23_Letters(cell) ==
    Cardinality({k \in 1..Len(cell) : \A i \in 1..k : is_ascii_alphabetic(cell[i])})

\* C23: cell_name_to_position succeeds exactly on one or more ASCII letters
\* of either case followed by one or more decimal digits and nothing else,
\* and returns the column the letters give by column_name_to_index and the
\* row the digits give; so it fails on "", "1A", "A" and "A1x", and gives
\* (0,0) for "A0" and (2,12) for "C12".
C23_CellNameIsLettersThenDigits ==
    last_op.op = "cell_name_to_position" =>
        LET cell == last_op.cell
            k == C23_Letters(cell)
            digits == Suffix(cell, k + 1)
            well_formed == /\ k >= 1
                           /\ digits # <<>>
                           /\ \A i \in 1..Len(digits) : is_ascii_digit(digits[i])
        IN  /\ last_op.result.ok <=> well_formed
            /\ well_formed =>
                  last_op.result.val = <<column_name_to_index(SubSeq(cell, 1, k)).val,
                                         DigitsValue(digits, 0)>>
            /\ cell \in {<<>>, <<"1", "A">>, <<"A">>, <<"A", "1", "x">>} => ~last_op.result.ok
            /\ cell = <<"A", "0">> => last_op.result = Ok(<<0, 0>>)
            /\ cell = <<"C", "1", "2">> => last_op.result = Ok(<<2, 12>>)

(***************************************************************************)
(* Serialising the grid as CSV (lib.rs:304-316), under SpecEval.            *)
(***************************************************************************)
\* Display for Value (formula.rs:42-52)
Value_to_string(value) ==
    IF value[1] = "String" THEN value[2]
    ELSE IF value[1] = "Number" THEN i64_to_string(value[2])
    ELSE IF value[1] = "FloatNumber" THEN f64_to_string(f64(value[2], value[3]))
    ELSE IF value[1] = "Empty" THEN <<>>
    ELSE <<"#", "e", "r", "r", "o", "r">>

\* Formula::long_display and Formula::display
Formula_long_display(f) == <<"=">> \o f.raw

Formula_display(f) == Value_to_string(f.value)

\* CellContent::display
display(content) ==
    IF content[1] = "Empty" THEN <<>>
    ELSE IF content[1] = "Text" THEN content[2]
    ELSE IF content[1] = "Number" THEN i64_to_string(content[2])
    ELSE IF content[1] = "FloatNumber" THEN f64_to_string(f64(content[2], content[3]))
    ELSE Formula_display(content[2])

\* CellContent::serialize_display
serialize_display(content) ==
    IF content[1] = "Formula" THEN Formula_long_display(content[2]) ELSE display(content)

\* the text written for the cells from the i-th on, fields[i] being the text
\* of the i-th: a line break before a cell of column 0 below row 0, then
\* the field and a comma
RECURSIVE serialize_cells(_, _, _)
serialize_cells(cells, fields, i) ==
    IF i > Len(cells) THEN <<>>
    ELSE (IF cells[i].position[1] = 0 /\ cells[i].position[2] # 0 THEN <<"\n">> ELSE <<>>)
         \o fields[i] \o <<",">>
         \o serialize_cells(cells, fields, i + 1)

\* Spreadsheet::serialize_as_csv
serialize_as_csv(s) ==
    Apply(LAMBDA cells :
            serialize_cells(cells, [i \in 1..Len(cells) |-> serialize_display(cells[i].content)], 1),
          serialized(s))

\* serialize_as_csv writing display() of every cell
C24_csv_of_values(s) ==
    Apply(LAMBDA cells :
            serialize_cells(cells, [i \in 1..Len(cells) |-> display(cells[i].content)], 1),
          serialized(s))

\* C24: after an evaluation pass, the text serialize_as_csv gives has in the
\* field of every formula cell the value of the formula, not its text: it
\* is the text that writing display() for every cell gives.
C24_CsvHoldsFormulaValues ==
    last_op.op = "evaluate" =>
        serialize_as_csv(sheet) = C24_csv_of_values(sheet)

(***************************************************************************)
(* The value Error over the passes of evaluate(), under SpecEval.           *)
(***************************************************************************)
\* the formulas of the grid that held the value Error before the last pass
C25_HadError ==
    {i \in formulas(sheet) : /\ i <= Len(last_op.before)
                             /\ last_op.before[i].content[1] = "Formula"
                             /\ last_op.before[i].content[2].value = ValueError}

\* before the last pass a cell the formula of cell i refers to had no value
\* to give: it held no content or a formula without a value, it was the
\* formula's own cell, or it lay outside the grid
C25_ReadsCellWithoutValue(i) ==
    LET f == sheet.cells[i].content[2]
    IN  \E k \in 1..Len(f.references) :
            /\ f.references[k][1] = "Cell"
            /\ LET p == <<f.references[k][2], f.references[k][3]>>
               IN  \/ p = f.position
                   \/ p[1] >= sheet.width \/ p[2] >= sheet.height
                   \/ try_to_object(last_op.before[index(sheet, p) + 1].content) = None

C26_OnCycle == {i \in formulas(sheet) : i \in reaches(sheet, i, Len(sheet.cells))}

MaxParseTokens == 5
MaxParseWidth == 2
ParseHeight == 3

\* the pieces the raw texts are concatenated from: two cell names, a column
\* name (in lower case, which no cell name continues), a number, two
\* separators and the range colon
ParseTokens == { <<"A", "1">>, <<"C", "2">>, <<"b">>, <<"2">>, <<"+">>, <<" ">>, <<":">> }

RECURSIVE ParseTexts(_)
ParseTexts(n) ==
    IF n = 0 THEN {<<>>}
    ELSE LET shorter == ParseTexts(n - 1)
         IN  shorter \cup {r \o t : r \in shorter, t \in ParseTokens}

NoParse == [buf |-> <<>>, parsed |-> <<>>, refs |-> <<>>, last |-> <<>>, panicked |-> FALSE]

InitParse ==
    /\ \E raw \in ParseTexts(MaxParseTokens), width \in 1..MaxParseWidth :
          last_op = [op |-> "new", raw |-> raw, size |-> <<width, ParseHeight>>,
                     result |-> NoParse]
    /\ sheet = NoSheet
    /\ FormulaIdle /\ CsvIdle
    /\ panicked = FALSE

\* Formula::parse_raw(&cell[1..], size), as CellContent::parse calls it
\* (cell_content.rs:156)
ParseRaw ==
    /\ last_op.op = "new"
    /\ \E r \in {parse_raw(last_op.raw, last_op.size)} :
          /\ last_op' = [last_op EXCEPT !.op = "parse_raw", !.result = r]
          /\ panicked' = r.panicked
    /\ UNCHANGED <<formula, moved, csv_s, csv_out, sheet>>

NextParse == ParseRaw

SpecParse == InitParse /\ [][NextParse]_vars

\* --- what the claims speak about ------------------------------------------
\* the cell names, the row numbers, and the texts without a reference that
\* stand before and after a range in the raw texts looked at
C27_Cells == { <<"A", "1">>, <<"C", "2">> }
C27_Rows == { <<"2">> }
C27_Before == { <<>>, <<"+">>, <<"2", "+">> }
C27_After == { <<>>, <<"+">>, <<"+", "2">> }

\* the slices C[r1:r2+1] for the columns C from x to last, joined by " + "
RECURSIVE C27_Slices(_, _, _, _)
C27_Slices(x, last, r1, r2) ==
    IF x > last THEN <<>>
    ELSE to_column_name(x) \o <<"[">> \o to_string(r1) \o <<":">> \o to_string(r2 + 1) \o <<"]">>
         \o (IF x < last THEN <<" ", "+", " ">> \o C27_Slices(x + 1, last, r1, r2) ELSE <<>>)

\* C27: a cell range X{r1}:Y{r2} is written as the slices C[r1:r2+1] of the
\* columns C from X to Y joined by " + ", and recorded as Cell(X,r1),
\* Cell(Y,r2); a row range X{r1}:{r2} is written as the one slice
\* X[r1:r2+1] and recorded as Cell(X,r1), Row(r2); this is so at the end of
\* the raw text and before a separator alike.
C27_RangesBecomeSlices ==
    last_op.op = "parse_raw" =>
        \A before \in C27_Before, after \in C27_After, first \in C27_Cells :
            LET p == cell_name_to_position(first).val
            IN  /\ \A second \in C27_Cells :
                      last_op.raw = before \o first \o <<":">> \o second \o after =>
                          LET q == cell_name_to_position(second).val
                          IN  /\ ~last_op.result.panicked
                              /\ last_op.result.parsed =
                                    before \o C27_Slices(p[1], q[1], p[2], q[2]) \o after
                              /\ last_op.result.refs = <<Cell(p), Cell(q)>>
                /\ \A row \in C27_Rows :
                      last_op.raw = before \o first \o <<":">> \o row \o after =>
                          LET r2 == parse_usize(row).val
                          IN  /\ ~last_op.result.panicked
                              /\ last_op.result.parsed =
                                    before \o C27_Slices(p[1], p[1], p[2], r2) \o after
                              /\ last_op.result.refs = <<Cell(p), Row(r2)>>

\* C27 witness: the range A1:C2, over three columns, has been parsed before
\* a separator.
C27_Witness ==
    /\ last_op.op = "parse_raw"
    /\ last_op.raw = <<"A", "1", ":", "C", "2", "+">>
    /\ last_op.result.refs = <<Cell(<<0, 1>>), Cell(<<2, 2>>)>>
    /\ Len(last_op.result.parsed) > Len(last_op.raw)

\* the tokens of a text: the runs of characters between separators, in order
RECURSIVE C28_Tokens(_, _, _)
C28_Tokens(raw, token, acc) ==
    IF raw = <<>> THEN (IF token = <<>> THEN acc ELSE Append(acc, token))
    ELSE IF Head(raw) \in SEPERATORS
         THEN C28_Tokens(Tail(raw), <<>>, IF token = <<>> THEN acc ELSE Append(acc, token))
         ELSE C28_Tokens(Tail(raw), Append(token, Head(raw)), acc)

\* the text without the spaces it begins with
RECURSIVE C28_WithoutLeadingSpaces(_)
C28_WithoutLeadingSpaces(raw) ==
    IF raw # <<>> /\ Head(raw) = " " THEN C28_WithoutLeadingSpaces(Tail(raw)) ELSE raw

\* the tokens that are column names and not cell names
C28_IsColumn(token) == column_name_to_index(token).ok /\ ~cell_name_to_position(token).ok

\* C28: for a raw text without ':' parse_raw does not abort, the expression
\* is the raw text without its leading spaces (so every column name stands
\* in it unchanged), and the Column references recorded are, in order, those
\* of the tokens that are column names with an index below the width; a
\* column name with a greater index leaves no reference.
C28_ColumnsWithinWidthOnly ==
    (last_op.op = "parse_raw" /\ \A i \in 1..Len(last_op.raw) : last_op.raw[i] # ":") =>
        LET tokens == C28_Tokens(last_op.raw, <<>>, <<>>)
            within(token) == /\ C28_IsColumn(token)
                             /\ column_name_to_index(token).val < last_op.size[1]
            columns == SelectSeq(tokens, within)
        IN  /\ ~last_op.result.panicked
            /\ last_op.result.parsed = C28_WithoutLeadingSpaces(last_op.raw)
            /\ SelectSeq(last_op.result.refs, LAMBDA r : r[1] = "Column")
                  = [k \in 1..Len(columns) |-> Column(column_name_to_index(columns[k]).val)]

\* C28 witness: on a grid of width 1 a text that begins with a space and
\* names column b twice has been parsed, and no reference was recorded.
C28_Witness ==
    /\ last_op.op = "parse_raw"
    /\ last_op.size[1] = 1
    /\ last_op.raw = <<" ", "b", "+", "b">>
    /\ last_op.result.refs = <<>>
    /\ last_op.result.parsed = <<"b", "+", "b">>

\* the text before the first ':' of the raw text, from the last separator on
RECURSIVE C29_TokenBeforeColon(_, _)
C29_TokenBeforeColon(raw, token) ==
    IF raw = <<>> THEN <<>>
    ELSE IF Head(raw) = ":" THEN token
    ELSE IF Head(raw) \in SEPERATORS THEN C29_TokenBeforeColon(Tail(raw), <<>>)
    ELSE C29_TokenBeforeColon(Tail(raw), Append(token, Head(raw)))

\* C29: parse_raw aborts on a raw text whose first ':' follows a token that
\* is no cell name; it does not return an expression for it.
C29_InvalidFirstEndpointAborts ==
    (/\ last_op.op = "parse_raw"
     /\ \E i \in 1..Len(last_op.raw) : last_op.raw[i] = ":"
     /\ ~cell_name_to_position(C29_TokenBeforeColon(last_op.raw, <<>>)).ok)
    => last_op.result.panicked

\* the pieces of a token between its ':' characters, in order
RECURSIVE C30_Segments(_, _, _)
C30_Segments(token, segment, acc) ==
    IF token = <<>> THEN Append(acc, segment)
    ELSE IF Head(token) = ":" THEN C30_Segments(Tail(token), <<>>, Append(acc, segment))
    ELSE C30_Segments(Tail(token), Append(segment, Head(token)), acc)

\* the references a token names: outside a range a cell name or a column
\* name below the width; in a range every cell name, and a row number that
\* follows a cell name
RECURSIVE C30_RangeReferences(_, _)
C30_RangeReferences(segments, k) ==
    IF k > Len(segments) THEN <<>>
    ELSE (IF cell_name_to_position(segments[k]).ok
          THEN <<Cell(cell_name_to_position(segments[k]).val)>>
          ELSE IF /\ k > 1
                  /\ cell_name_to_position(segments[k - 1]).ok
                  /\ parse_usize(segments[k]).ok
               THEN <<Row(parse_usize(segments[k]).val)>>
               ELSE <<>>)
         \o C30_RangeReferences(segments, k + 1)

C30_TokenReferences(token, width) ==
    LET segments == C30_Segments(token, <<>>, <<>>)
    IN  IF Len(segments) > 1 THEN C30_RangeReferences(segments, 1)
        ELSE IF cell_name_to_position(token).ok
             THEN <<Cell(cell_name_to_position(token).val)>>
             ELSE IF column_name_to_index(token).ok /\ column_name_to_index(token).val < width
                  THEN <<Column(column_name_to_index(token).val)>>
                  ELSE <<>>

RECURSIVE C30_References(_, _, _)
C30_References(tokens, k, width) ==
    IF k > Len(tokens) THEN <<>>
    ELSE C30_TokenReferences(tokens[k], width) \o C30_References(tokens, k + 1, width)

\* C30: whenever parse_raw returns, the references it recorded are those the
\* tokens of the raw text name, one for each, in the order of the text from
\* left to right, the start of a range directly before its end.
C30_ReferencesInTextOrder ==
    (last_op.op = "parse_raw" /\ ~last_op.result.panicked) =>
        last_op.result.refs
            = C30_References(C28_Tokens(last_op.raw, <<>>, <<>>), 1, last_op.size[1])

\* c is a formula whose value is Empty or Error
C31_HasNoValue(c) == c[1] = "Formula" /\ c[2].value[1] \in {"Empty", "Error"}

\* C31: a formula whose value is Empty or Error compares Less with every
\* content; two such formulas are each Less than the other.
C31_FormulaWithoutValueIsLess ==
    (last_op.op = "cmp" /\ C31_HasNoValue(last_op.self)) =>
        /\ last_op.result = "Less"
        /\ C31_HasNoValue(last_op.other) => cmp(last_op.other, last_op.self) = "Less"

\* C31 witness: a formula whose value is Error has been compared with a
\* formula whose value is Empty, and was Less.
C31_Witness ==
    /\ last_op.op = "cmp"
    /\ last_op.self = FormulaWith(ValueError)
    /\ last_op.other = FormulaWith(ValueEmpty)
    /\ last_op.result = "Less"

\* the edges along which the kind of a content may change
C32_Edges ==
    { <<"Empty", "Text">>, <<"Empty", "Number">>, <<"Empty", "FloatNumber">>,
      <<"Empty", "Formula">>, <<"Number", "FloatNumber">>, <<"FloatNumber", "Number">>,
      <<"Number", "Text">>, <<"FloatNumber", "Text">> }

\* C32: a character typed into a cell leaves the kind of its content as it
\* was or changes it along one of the edges; a Text stays a Text, a Formula
\* stays a Formula, and no cell is Empty afterwards.
C32_KindChangesAlongEdges ==
    last_op.op = "input_char" =>
        LET before == last_op.before[1]
            after == current_content(sheet)[1]
        IN  /\ before = after \/ <<before, after>> \in C32_Edges
            /\ before \in {"Text", "Formula"} => after = before
            /\ after # "Empty"

\* C32 witness: the keys '1' '.' 'a' have taken an Empty cell to a Number, to
\* a FloatNumber and to a Text.
C32_Witness ==
    /\ last_op.op = "input_char"
    /\ last_op.keys = <<"1", ".", "a">>
    /\ last_op.before[1] = "FloatNumber"
    /\ current_content(sheet)[1] = "Text"

(***************************************************************************)
(* The terminal of tabelle (tabelle/src/main.rs, commands.rs): the grid,    *)
(* the scroll page and the size of the window.  A terminal is a record      *)
(* [spreadsheet, scroll_page, cursor, width, height, panicked], where       *)
(* scroll_page and cursor are the two fields of ScrollPage.  Rendering      *)
(* writes to the screen only and is left out.                               *)
(***************************************************************************)
\* cursor_to_cell(cursor), with offset (7, 3) and size_per_cell (12, 2)
cursor_to_cell(cursor) == <<(cursor[1] - 7) \div 12, (cursor[2] - 3) \div 2>>

\* Terminal::cell_size
cell_size(t) ==
    LET result == cursor_to_cell(<<t.width - 1, t.height - 1>>)
    IN  <<result[1] - 1, result[2] - 1>>

\* while cursor > size { scroll_page += 1; cursor -= size }: <<scroll_page, cursor>>
RECURSIVE scroll_while_beyond(_, _, _)
scroll_while_beyond(scroll_page, cursor, size) ==
    IF cursor > size THEN scroll_while_beyond(scroll_page + 1, cursor - size, size)
    ELSE <<scroll_page, cursor>>

\* while cursor >= size { scroll_page += 1; cursor -= size }: <<scroll_page, cursor>>
RECURSIVE scroll_while_outside(_, _, _)
scroll_while_outside(scroll_page, cursor, size) ==
    IF cursor >= size THEN scroll_while_outside(scroll_page + 1, cursor - size, size)
    ELSE <<scroll_page, cursor>>

\* ScrollPage::new(cursor, size)
ScrollPage_new(cursor, size) ==
    LET x == scroll_while_beyond(0, cursor[1], size[1])
        y == scroll_while_beyond(0, cursor[2], size[2])
    IN  [scroll_page |-> <<x[1], y[1]>>, cursor |-> <<x[2], y[2]>>]

\* ScrollPage::set_cursor(cursor, size): scroll_page is counted on from what
\* it was
ScrollPage_set_cursor(t, cursor, size) ==
    LET x == scroll_while_beyond(t.scroll_page[1], cursor[1], size[1])
        y == scroll_while_beyond(t.scroll_page[2], cursor[2], size[2])
    IN  [t EXCEPT !.scroll_page = <<x[1], y[1]>>, !.cursor = <<x[2], y[2]>>]

\* ScrollPage::no_scroll_cursor(size)
no_scroll_cursor(t, size) ==
    <<t.scroll_page[1] * size[1] + t.cursor[1], t.scroll_page[2] * size[2] + t.cursor[2]>>

\* one axis of ScrollPage::move_cursor: [scroll_page, cursor, result,
\* panicked].  A cursor still negative after one page back becomes a usize
\* near its maximum, and the loop that follows does not come to an end
\* before scroll_page overflows: panicked.
move_cursor_axis(scroll_page, cursor, offset, size) ==
    LET moved_cursor == cursor + offset
        back == moved_cursor < 0 /\ scroll_page > 0
        page == IF back THEN scroll_page - 1 ELSE scroll_page
        c == IF moved_cursor < 0 THEN (IF back THEN moved_cursor + size ELSE 0)
             ELSE moved_cursor
        r == scroll_while_outside(page, c, size)
    IN  IF c < 0
        THEN [scroll_page |-> page, cursor |-> c, result |-> TRUE, panicked |-> TRUE]
        ELSE [scroll_page |-> r[1], cursor |-> r[2], result |-> back \/ c >= size,
              panicked |-> FALSE]

\* ScrollPage::move_cursor(offset, size): [terminal, result]
ScrollPage_move_cursor(t, offset, size) ==
    LET x == move_cursor_axis(t.scroll_page[1], t.cursor[1], offset[1], size[1])
        y == move_cursor_axis(t.scroll_page[2], t.cursor[2], offset[2], size[2])
    IN  [terminal |-> [t EXCEPT !.scroll_page = <<x.scroll_page, y.scroll_page>>,
                                !.cursor = <<x.cursor, y.cursor>>,
                                !.panicked = x.panicked \/ y.panicked],
         result |-> x.result \/ y.result]

\* the comparison that opens move_cursor, set_cursor, move_cursor_force_render
\* and update_cursor
cursor_agrees(t) == t.spreadsheet.current_cell = no_scroll_cursor(t, cell_size(t))

\* Terminal::update_cursor(old_cursor): the assert_eq!
update_cursor(t) == IF cursor_agrees(t) THEN t ELSE [t EXCEPT !.panicked = TRUE]

\* Terminal::move_cursor(x, y) and Terminal::move_cursor_force_render(x, y),
\* which differ in what they render: [terminal, result]
Terminal_move_cursor(t, x, y) ==
    IF ~cursor_agrees(t) THEN [terminal |-> [t EXCEPT !.panicked = TRUE], result |-> FALSE]
    ELSE LET m == move_cursor(t.spreadsheet, x, y)
             with_sheet == [t EXCEPT !.spreadsheet = m.sheet]
             scrolled == IF m.result
                         THEN ScrollPage_move_cursor(with_sheet, <<x, y>>, cell_size(t)).terminal
                         ELSE with_sheet
         IN  [terminal |-> IF scrolled.panicked THEN scrolled ELSE update_cursor(scrolled),
              result |-> m.result]

\* Terminal::set_cursor(x, y)
Terminal_set_cursor(t, x, y) ==
    IF ~cursor_agrees(t) THEN [t EXCEPT !.panicked = TRUE]
    ELSE update_cursor(ScrollPage_set_cursor([t EXCEPT !.spreadsheet = set_cursor(@, <<x, y>>)],
                                             <<x, y>>, cell_size(t)))

\* Spreadsheet::recommended_cell_content(position): Ok(content), or Err when
\* the index or moved_to aborts
recommended_cell_content(s, position) ==
    LET i == index(s, position) + 1
        x_diff == s.current_cell[1] - position[1]
        y_diff == s.current_cell[2] - position[2]
    IN  IF i > Len(s.cells) THEN Err
        ELSE Apply(LAMBDA content :
                     IF content[1] = "Number" THEN Ok(Number(content[2] + x_diff + y_diff))
                     ELSE IF content[1] = "Formula"
                          THEN Apply(LAMBDA f : IF f.ok THEN Ok(Formula(f.val)) ELSE Err,
                                     moved_to(content[2], s.current_cell, <<s.width, s.height>>))
                          ELSE Ok(content),
                   s.cells[i].content)

\* if !self.move_cursor(x, y)? { resize by (x, y); move_cursor_force_render(x, y) }
\* followed by update_cursor: the end of the Tab key and of a committed edit
move_or_grow(t, x, y) ==
    Apply(LAMBDA m :
            IF m.terminal.panicked THEN m.terminal
            ELSE IF m.result THEN update_cursor(m.terminal)
            ELSE Apply(LAMBDA grown :
                         IF grown.panicked THEN grown ELSE update_cursor(grown),
                       Terminal_move_cursor(
                           [m.terminal EXCEPT !.spreadsheet =
                               resize(@, @.width + x, @.height + y)], x, y).terminal),
          Terminal_move_cursor(t, x, y))

\* Enter (x, y = 0, 1) or Tab (1, 0) in the cell editor: the buffer is
\* parsed into the current cell, the grid evaluated, the cursor moved on
commit_cell_editor(t, buffer, x, y) ==
    LET s == t.spreadsheet
        content == CellContent_parse(buffer, s.current_cell, <<s.width, s.height>>)
    IN  IF ~content.ok THEN [t EXCEPT !.panicked = TRUE]
        ELSE Apply(LAMBDA u :
                     IF u.panicked THEN [t EXCEPT !.panicked = TRUE]
                     ELSE move_or_grow([t EXCEPT !.spreadsheet = evaluate(u.sheet)], x, y),
                   update_cell_at(s, s.current_cell, content.val))

\* the loop over y of Command::Clear and Command::Fill for one column x:
\* the cell (x, y) is written, then the cursor moved down; the loop ends
\* when the cursor did not move
RECURSIVE execute_rows(_, _, _, _, _, _)
execute_rows(t, kind, from, x, y, to_y) ==
    IF y > to_y \/ t.panicked THEN t
    ELSE Apply(LAMBDA content :
           IF ~content.ok THEN [t EXCEPT !.panicked = TRUE]
           ELSE Apply(LAMBDA u :
                  IF u.panicked THEN [t EXCEPT !.panicked = TRUE]
                  ELSE Apply(LAMBDA m :
                         IF m.terminal.panicked \/ ~m.result THEN m.terminal
                         ELSE execute_rows(m.terminal, kind, from, x, y + 1, to_y),
                         Terminal_move_cursor(
                             [t EXCEPT !.spreadsheet =
                                 IF kind = "fill" THEN evaluate(u.sheet) ELSE u.sheet],
                             0, 1)),
                  update_cell_at(t.spreadsheet, <<x, y>>, content.val)),
           IF kind = "fill" THEN recommended_cell_content(t.spreadsheet, from) ELSE Ok(Empty))

\* the loop over x of Command::Clear and Command::Fill: after each column
\* the cursor is moved to the top of the next one; the loop ends when the
\* cursor did not move
RECURSIVE execute_columns(_, _, _, _, _, _)
execute_columns(t, kind, from, x, to_x, to_y) ==
    IF x > to_x \/ t.panicked THEN t
    ELSE Apply(LAMBDA rows :
           IF rows.panicked THEN rows
           ELSE Apply(LAMBDA m :
                  IF m.terminal.panicked \/ ~m.result THEN m.terminal
                  ELSE execute_columns(m.terminal, kind, from, x + 1, to_x, to_y),
                  Terminal_move_cursor(rows, 1, 0 - (to_y - from[2]))),
           execute_rows(t, kind, from, x, from[2], to_y))

\* Command::Clear((to_x, to_y)) and Command::Fill((to_x, to_y)) of
\* Command::execute, for a target not above and not left of the cursor
execute_clear_or_fill(t, kind, to) ==
    LET from == t.spreadsheet.current_cell
    IN  Apply(LAMBDA done :
                IF done.panicked THEN done
                ELSE update_cursor(IF kind = "clear"
                                   THEN [done EXCEPT !.spreadsheet = evaluate(@)]
                                   ELSE done),
              execute_columns(t, kind, from, from[1], to[1], to[2]))

\* Command::Goto(cell)
execute_goto(t, cell) ==
    LET s == t.spreadsheet
    IN  Terminal_set_cursor(t, IF cell[1] < s.width - 1 THEN cell[1] ELSE s.width - 1,
                               IF cell[2] < s.height - 1 THEN cell[2] ELSE s.height - 1)

\* Command::Find(needle)
execute_find(t, needle) ==
    Apply(LAMBDA f :
            IF f.panicked THEN [t EXCEPT !.panicked = TRUE]
            ELSE IF ~f.found THEN t
            ELSE update_cursor(ScrollPage_set_cursor(
                     [t EXCEPT !.spreadsheet = set_cursor(@, f.position)],
                     f.position, cell_size(t))),
          find(t.spreadsheet, needle))

(***************************************************************************)
(* Keys and commands on a terminal (Terminal::start, handle_event and       *)
(* Command::execute), for grids of up to MaxTerminalSide columns and rows.  *)
(* sheet is the grid of the terminal; last_op holds the scroll page, the    *)
(* size of the window, the key or command handled last and the number of    *)
(* cell edits committed and of clear and fill commands.  A terminal that    *)
(* has aborted handles nothing more.                                        *)
(***************************************************************************)
MaxTerminalSide == 3
MaxCommits == 2

\* the window sizes: cell_size is (2, 2) for the first and (5, 9) for the
\* second
TerminalWindows == { <<44, 10>>, <<80, 24>> }

\* the texts committed from the cell editor (the formula refers to no cell,
\* so that moving it never takes a reference below zero) and the needle
\* searched for
TerminalTexts == { <<"a">>, <<"=", "1">> }
TerminalNeedle == <<"a">>

\* the terminal the state holds
terminal ==
    [spreadsheet |-> sheet, scroll_page |-> last_op.scroll_page, cursor |-> last_op.cursor,
     width |-> last_op.width, height |-> last_op.height, panicked |-> panicked]

\* Terminal::new on a grid without contents, the cursor on its first cell
InitTerminal ==
    /\ \E w, h \in 1..MaxTerminalSide : sheet = new(w, h)
    /\ \E window \in TerminalWindows :
          \E page \in {ScrollPage_new(<<0, 0>>, cursor_to_cell(window))} :
             last_op = [op |-> "new", scroll_page |-> page.scroll_page, cursor |-> page.cursor,
                        width |-> window[1], height |-> window[2], commits |-> 0]
    /\ FormulaIdle /\ CsvIdle
    /\ panicked = FALSE

\* the state after a key or command that left the terminal t
Handled(op, t, commits) ==
    /\ ~panicked
    /\ sheet' = t.spreadsheet
    /\ panicked' = t.panicked
    /\ last_op' = [op |-> op, scroll_page |-> t.scroll_page, cursor |-> t.cursor,
                   width |-> t.width, height |-> t.height, commits |-> commits]
    /\ UNCHANGED <<formula, moved, csv_s, csv_out>>

\* KeyCode::Left, Right, Up, Down and BackTab
KeyArrow(x, y) == Handled("arrow", Terminal_move_cursor(terminal, x, y).terminal, last_op.commits)

\* KeyCode::PageUp and KeyCode::PageDown
KeyPage(direction) ==
    Handled("page",
            Terminal_move_cursor(terminal, 0, direction * cell_size(terminal)[2]).terminal,
            last_op.commits)

\* KeyCode::Home
KeyHome == Handled("home", Terminal_set_cursor(terminal, 0, 0), last_op.commits)

\* KeyCode::End
KeyEnd ==
    Handled("end", Terminal_set_cursor(terminal, sheet.width - 1, sheet.height - 1),
            last_op.commits)

\* KeyCode::Tab outside the cell editor
KeyTab ==
    /\ sheet.current_cell[1] + 1 < MaxTerminalSide
    /\ Handled("tab", move_or_grow(terminal, 1, 0), last_op.commits)

\* a text typed into the cell editor and committed with Enter (0, 1) or
\* Tab (1, 0)
CommitCellEditor(buffer, x, y) ==
    /\ last_op.commits < MaxCommits
    /\ sheet.current_cell[1] + x < MaxTerminalSide
    /\ sheet.current_cell[2] + y < MaxTerminalSide
    /\ Handled("commit", commit_cell_editor(terminal, buffer, x, y), last_op.commits + 1)

\* the command goto
CommandGoto(cell) == Handled("goto", execute_goto(terminal, cell), last_op.commits)

\* the command find
CommandFind == Handled("find", execute_find(terminal, TerminalNeedle), last_op.commits)

\* the commands clear and fill
CommandClearOrFill(kind, to) ==
    /\ last_op.commits < MaxCommits
    /\ to[1] >= sheet.current_cell[1] /\ to[2] >= sheet.current_cell[2]
    /\ Handled(kind, execute_clear_or_fill(terminal, kind, to), last_op.commits + 1)

\* Event::Resize(width, height)
EventResize(window) ==
    /\ <<last_op.width, last_op.height>> # window
    /\ Handled("window", [terminal EXCEPT !.width = window[1], !.height = window[2]],
               last_op.commits)

NextTerminal ==
    \/ \E offset \in {<<-1, 0>>, <<1, 0>>, <<0, -1>>, <<0, 1>>} : KeyArrow(offset[1], offset[2])
    \/ \E direction \in {-1, 1} : KeyPage(direction)
    \/ KeyHome
    \/ KeyEnd
    \/ KeyTab
    \/ \E buffer \in TerminalTexts, offset \in {<<0, 1>>, <<1, 0>>} :
          CommitCellEditor(buffer, offset[1], offset[2])
    \/ \E cell \in (0..MaxTerminalSide) \X (0..MaxTerminalSide) : CommandGoto(cell)
    \/ CommandFind
    \/ \E kind \in {"clear", "fill"}, to \in (0..MaxTerminalSide) \X (0..MaxTerminalSide) :
          CommandClearOrFill(kind, to)
    \/ \E window \in TerminalWindows : EventResize(window)

SpecTerminal == InitTerminal /\ [][NextTerminal]_vars

\* C33: after every key or command that moves the cursor the terminal has
\* not aborted, and the cursor of the grid is the cell the scroll page and
\* its cursor stand for.
C33_CursorAgreesWithScrollPage ==
    last_op.op \in {"arrow", "page", "home", "end", "tab", "commit", "goto", "find",
                    "clear", "fill"}
        => ~panicked /\ cursor_agrees(terminal)

\* C34: every cell that holds a formula holds one whose position is the
\* position of the cell.
C34_FormulaPositionIsCellPosition ==
    ~panicked =>
        \A i \in 1..Len(sheet.cells) :
            sheet.cells[i].content[1] = "Formula"
                => sheet.cells[i].content[2].position = sheet.cells[i].position

(***************************************************************************)
(* What a formula cell stores of its text: grids ingested by load_csv or    *)
(* created by Spreadsheet::new, texts committed to their cells as the cell  *)
(* editor parses them, and resize to a greater size.  last_op names the     *)
(* call made last.                                                          *)
(***************************************************************************)
MaxStoredSide == 2

\* a number, a formula that names column B and one that names cell A0
StoredTexts == { <<"1">>, <<"=", "B">>, <<"=", "A", "0">> }

\* one line of one or two fields
StoredCsv == StoredTexts \cup {a \o <<",">> \o b : a, b \in StoredTexts}

InitStored ==
    /\ sheet = new(1, 1)
    /\ last_op = [op |-> "new"]
    /\ FormulaIdle /\ CsvIdle
    /\ panicked = FALSE

\* Spreadsheet::load_csv(csv) when the program starts on a file
StoredLoadCsv(csv) ==
    /\ ~panicked /\ last_op.op = "new"
    /\ \E r \in {load_csv(csv)} :
          /\ sheet' = r.sheet
          /\ panicked' = r.panicked
    /\ last_op' = [op |-> "load_csv"]
    /\ UNCHANGED <<formula, moved, csv_s, csv_out>>

\* update_cell_at(cell_position, CellContent::parse(text, cell_position,
\* (columns, rows))) for a cell of the grid
StoredUpdateCellAt(cell_position, text) ==
    /\ ~panicked
    /\ cell_position[1] < sheet.width /\ cell_position[2] < sheet.height
    /\ \E content \in {CellContent_parse(text, cell_position, <<sheet.width, sheet.height>>)} :
          \E r \in {IF content.ok THEN update_cell_at(sheet, cell_position, content.val)
                    ELSE [sheet |-> sheet, panicked |-> TRUE]} :
             /\ sheet' = r.sheet
             /\ panicked' = r.panicked
    /\ last_op' = [op |-> "update_cell_at"]
    /\ UNCHANGED <<formula, moved, csv_s, csv_out>>

\* resize(width, height) to a size not smaller than the current one
StoredResize(width, height) ==
    /\ ~panicked
    /\ width >= sheet.width /\ height >= sheet.height
    /\ <<width, height>> # <<sheet.width, sheet.height>>
    /\ sheet' = resize(sheet, width, height)
    /\ last_op' = [op |-> "resize"]
    /\ UNCHANGED <<formula, moved, csv_s, csv_out, panicked>>

NextStored ==
    \/ \E csv \in StoredCsv : StoredLoadCsv(csv)
    \/ \E cell_position \in (0..(MaxStoredSide - 1)) \X (0..(MaxStoredSide - 1)),
          text \in StoredTexts : StoredUpdateCellAt(cell_position, text)
    \/ \E width, height \in 1..MaxStoredSide : StoredResize(width, height)

SpecStored == InitStored /\ [][NextStored]_vars

\* C35: every formula cell stores the expression and the references that
\* parse_raw returns for its raw text and the size the grid has now.
C35_StoredParseIsParseForGridSize ==
    ~panicked =>
        \A i \in 1..Len(sheet.cells) :
            sheet.cells[i].content[1] = "Formula" =>
                LET f == sheet.cells[i].content[2]
                    p == parse_raw(f.raw, <<sheet.width, sheet.height>>)
                IN  ~p.panicked /\ f.parsed = p.parsed /\ f.references = p.refs

(***************************************************************************)
(* Formulas over a range of rows: a grid whose cells receive numbers and    *)
(* the sum of the range A1:A2, then are evaluated.  last_op names the call  *)
(* made last and counts the texts committed.                                *)
(***************************************************************************)
RangeWidth == 2
RangeHeight == 3
MaxRangeUpdates == 3

RangeTexts == { <<"1">>, <<"2">>,
                <<"=", "s", "u", "m", "(", "A", "1", ":", "A", "2", ")">> }

InitRange ==
    /\ sheet = new(RangeWidth, RangeHeight)
    /\ last_op = [op |-> "new", updates |-> 0]
    /\ FormulaIdle /\ CsvIdle
    /\ panicked = FALSE

\* Spreadsheet::update_cell_at(cell_position, content), the content parsed
\* from a text as the cell editor parses it (main.rs:157-164)
RangeUpdateCellAt(cell_position, text) ==
    /\ ~panicked /\ last_op.updates < MaxRangeUpdates
    /\ \E content \in {CellContent_parse(text, cell_position, <<sheet.width, sheet.height>>)} :
          \E r \in {IF content.ok THEN update_cell_at(sheet, cell_position, content.val)
                    ELSE [sheet |-> sheet, panicked |-> TRUE]} :
             /\ sheet' = r.sheet
             /\ panicked' = r.panicked
    /\ last_op' = [op |-> "update_cell_at", updates |-> last_op.updates + 1]
    /\ UNCHANGED <<formula, moved, csv_s, csv_out>>

\* Spreadsheet::evaluate()
RangeEvaluate ==
    /\ ~panicked /\ last_op.op # "evaluate"
    /\ sheet' = evaluate(sheet)
    /\ last_op' = [last_op EXCEPT !.op = "evaluate"]
    /\ UNCHANGED <<formula, moved, csv_s, csv_out, panicked>>

NextRange ==
    \/ \E cell_position \in (0..(RangeWidth - 1)) \X (0..(RangeHeight - 1)),
          text \in RangeTexts : RangeUpdateCellAt(cell_position, text)
    \/ RangeEvaluate

SpecRange == InitRange /\ [][NextRange]_vars

\* the objects of the cells of column x in the rows from..to that hold one
RECURSIVE C36_RowValues(_, _, _, _)
C36_RowValues(s, x, from, to) ==
    IF from > to THEN <<>>
    ELSE LET it == try_to_object(s.cells[index(s, <<x, from>>) + 1].content)
         IN  (IF it = None THEN <<>> ELSE <<it>>) \o C36_RowValues(s, x, from + 1, to)

\* C36: the slice a formula's range X{r1}:X{r2} stands for holds the values
\* of the cells of column X in the rows r1 to r2, in row order, wherever the
\* column has Empty cells and whether or not the formula's cell is in it
\* (the formula's cell is outside the rows of the range).
C36_SliceHoldsRowsOfRange ==
    ~panicked =>
        \A i \in 1..Len(sheet.cells) :
            LET c == sheet.cells[i]
                f == c.content[2]
            IN  (/\ c.content[1] = "Formula"
                 /\ Len(f.references) = 2
                 /\ f.references[1][1] = "Cell" /\ f.references[2][1] = "Cell"
                 /\ f.references[1][2] = f.references[2][2]
                 /\ ~(c.position[1] = f.references[1][2]
                        /\ c.position[2] \in f.references[1][3]..f.references[2][3]))
                => py_subscription(slice_code(f.references[1][2], f.references[1][3],
                                              f.references[2][3] + 1), f, sheet)
                     = PyList(C36_RowValues(sheet, f.references[1][2], f.references[1][3],
                                            f.references[2][3]))

\* the contents C37 speaks of: Empty, Text, Number, and a formula whose
\* value is an integer
C37_Plain(c) ==
    \/ c[1] \in {"Empty", "Text", "Number"}
    \/ c[1] = "Formula" /\ c[2].value[1] = "Number"

C37_IsNumber(c) == C37_Plain(c) /\ c[1] \in {"Number", "Formula"}

\* C37: on Empty, Text, Number and formulas with an integer value the
\* comparator is a consistent order: cmp(a, b) is the reverse of cmp(b, a),
\* the order is transitive, Empty is Less than every number and every
\* number is Less than every Text.
C37_ConsistentOrderOnPlainContents ==
    (last_op.op = "cmp" /\ C37_Plain(last_op.self) /\ C37_Plain(last_op.other)) =>
        LET a == last_op.self
            b == last_op.other
        IN  /\ last_op.result = reverse(cmp(b, a))
            /\ \A c \in {d \in OrderContents : C37_Plain(d)} :
                  /\ (last_op.result # "Greater" /\ cmp(b, c) # "Greater")
                        => cmp(a, c) # "Greater"
                  /\ (last_op.result = "Less" /\ cmp(b, c) # "Greater")
                        => cmp(a, c) = "Less"
                  /\ (last_op.result # "Greater" /\ cmp(b, c) = "Less")
                        => cmp(a, c) = "Less"
            /\ (a = Empty /\ C37_IsNumber(b)) => last_op.result = "Less"
            /\ (C37_IsNumber(a) /\ b[1] = "Text") => last_op.result = "Less"

\* C37 witness: a formula with an integer value was compared with a Text and
\* is Less
C37_Witness ==
    /\ last_op.op = "cmp"
    /\ last_op.self = FormulaWith(ValueNumber(2))
    /\ last_op.other = Text(<<"a">>)
    /\ last_op.result = "Less"

\* C38: in every state of a grid, ingested or new and after any operations,
\* the cursor is on a cell of the grid: its column is below the width and
\* its row below the height.
C38_CursorInsideGrid ==
    ~panicked => /\ sheet.current_cell[1] < sheet.width
                 /\ sheet.current_cell[2] < sheet.height

\* the sizing pass with the scan of every line started in NewCell
RECURSIVE C39_SizeLineByLine(_, _, _, _, _)
C39_SizeLineByLine(ls, n, sep, width, height) ==
    IF n > Len(ls)
    THEN IF width = 0 \/ height = 0 THEN Error(NoCellsFound(width, height))
         ELSE Ok(<<width, height>>)
    ELSE Apply(LAMBDA l :
                 IF l.err # <<>> THEN Error(l.err)
                 ELSE C39_SizeLineByLine(ls, n + 1, sep,
                                         IF width < l.current_width THEN l.current_width
                                         ELSE width,
                                         height + (IF l.current_width > 0 THEN 1 ELSE 0)),
               size_line(ls[n], 1, sep, "NewCell", IF ls[n] # <<>> THEN 1 ELSE 0))

\* the parse pass with the scan of every line started in NewCell
RECURSIVE C39_ParseLineByLine(_, _, _, _, _)
C39_ParseLineByLine(ls, n, seperator, width, cells) ==
    IF n > Len(ls) THEN [err |-> FALSE, cells |-> cells]
    ELSE Apply(LAMBDA l :
                 IF l.err THEN [err |-> TRUE, cells |-> cells]
                 ELSE C39_ParseLineByLine(ls, n + 1, seperator, width,
                                          pad_row(Append(l.cells, l.current_cell),
                                                  Len(cells) + width)),
               parse_line(ls[n], 1, seperator, "NewCell", cells, <<>>))

\* C39: both passes scan every line starting in the state NewCell: the size
\* the sizing pass returns and the fields the parse pass returns are those of
\* the lines scanned one by one, each from NewCell.
C39_EveryLineStartsInNewCell ==
    /\ csv_out.call = "parse_size_of_csv" =>
          csv_out.result = C39_SizeLineByLine(lines(csv_s), 1, csv_out.sep, 0, 0)
    /\ csv_out.call = "parse_csv" =>
          LET p == C39_ParseLineByLine(lines(csv_s), 1, csv_out.sep, csv_out.size[1], <<>>)
          IN  IF p.err THEN csv_out.result.outcome = "err"
              ELSE csv_out.result.outcome # "err" /\ csv_out.result.cells = p.cells

(***************************************************************************)
(* The line editor of the cell editor and the command line, TextInput       *)
(* (tabelle/src/text_input.rs), under the keys handle_text_input_event      *)
(* passes to it.  The buffer is the sequence of the bytes of its text; a    *)
(* character is the sequence of its bytes.  last_op holds the editor, the   *)
(* last two keys and the editor before each of them.                        *)
(***************************************************************************)
MaxInputBytes == 3
MaxCharCursor == 4

\* the characters typed: a and b of one byte, and one of two bytes (the
\* bytes C3 A9 of e with an acute accent)
InputChars == { <<"a">>, <<"b">>, <<"C3", "A9">> }

\* str::is_char_boundary(at): the start, the end, or a byte that is not a
\* continuation byte
is_char_boundary(buffer, at) ==
    \/ at = 0
    \/ at = Len(buffer)
    \/ at < Len(buffer) /\ buffer[at + 1] # "A9"

\* String::remove(idx): the text without the character that starts at idx;
\* it aborts when idx is the end of the text or inside a character
String_remove(buffer, idx) ==
    IF idx >= Len(buffer) \/ ~is_char_boundary(buffer, idx)
    THEN [panicked |-> TRUE, buffer |-> buffer]
    ELSE LET next == CHOOSE i \in (idx + 1)..Len(buffer) :
                        /\ is_char_boundary(buffer, i)
                        /\ \A j \in (idx + 1)..(i - 1) : ~is_char_boundary(buffer, j)
         IN  [panicked |-> FALSE,
              buffer |-> SubSeq(buffer, 1, idx) \o SubSeq(buffer, next + 1, Len(buffer))]

\* (byte_cursor.saturating_sub(5)..byte_cursor - 1).filter(is_char_boundary)
\* .rev().next() for a byte_cursor above 0: the set of the one index found,
\* empty when next() returns None
boundary_before(buffer, byte_cursor) ==
    LET range == {i \in (IF byte_cursor > 5 THEN byte_cursor - 5 ELSE 0)..(byte_cursor - 2) :
                    is_char_boundary(buffer, i)}
    IN  {i \in range : \A j \in range : j <= i}

text_input == [buffer |-> last_op.buffer, byte_cursor |-> last_op.byte_cursor,
               char_cursor |-> last_op.char_cursor]

\* the editor after a key: the key, the key before it, and the editor before
\* each of the two
Typed(key, buffer, byte_cursor, char_cursor, abort) ==
    /\ ~panicked
    /\ last_op' = [op |-> key, prev_op |-> last_op.op,
                   buffer |-> buffer, byte_cursor |-> byte_cursor,
                   char_cursor |-> char_cursor,
                   before |-> text_input, before2 |-> last_op.before]
    /\ panicked' = abort
    /\ UNCHANGED <<formula, moved, csv_s, csv_out, sheet>>

\* TextInput::default()
InitTextInput ==
    /\ last_op = [op |-> "new", prev_op |-> "new", buffer |-> <<>>, byte_cursor |-> 0,
                  char_cursor |-> 0,
                  before |-> [buffer |-> <<>>, byte_cursor |-> 0, char_cursor |-> 0],
                  before2 |-> [buffer |-> <<>>, byte_cursor |-> 0, char_cursor |-> 0]]
    /\ sheet = NoSheet
    /\ FormulaIdle /\ CsvIdle
    /\ panicked = FALSE

\* KeyCode::Char(ch): insert_char(ch)
InsertChar(ch) ==
    /\ Len(last_op.buffer) + Len(ch) <= MaxInputBytes
    /\ last_op.char_cursor < MaxCharCursor
    /\ Typed("insert_char",
             SubSeq(last_op.buffer, 1, last_op.byte_cursor) \o ch
                 \o SubSeq(last_op.buffer, last_op.byte_cursor + 1, Len(last_op.buffer)),
             last_op.byte_cursor + Len(ch), last_op.char_cursor + 1, FALSE)

\* KeyCode::Backspace: backspace().  A char_cursor of 0 beside a byte_cursor
\* above 0 exists only in a build without overflow checks (see Left), where
\* the subtraction wraps around.
Backspace ==
    IF last_op.byte_cursor = 0
    THEN Typed("backspace", last_op.buffer, last_op.byte_cursor, last_op.char_cursor, FALSE)
    ELSE \E found \in {boundary_before(last_op.buffer, last_op.byte_cursor)} :
            IF found = {}                                            \* unwrap of None
            THEN Typed("backspace", last_op.buffer, last_op.byte_cursor,
                       last_op.char_cursor, TRUE)
            ELSE \E byte_cursor \in found :
                    \E r \in {String_remove(last_op.buffer, byte_cursor)} :
                       Typed("backspace", r.buffer, byte_cursor,
                             IF r.panicked THEN last_op.char_cursor
                             ELSE IF last_op.char_cursor = 0 THEN usize_MAX
                             ELSE last_op.char_cursor - 1, r.panicked)

\* KeyCode::Left: left().  At byte_cursor 0 the subtraction byte_cursor - 1
\* overflows: a build with overflow checks aborts there, one without them
\* searches the range 0..usize::MAX from its end and finds the end of the
\* buffer.
Left ==
    IF last_op.byte_cursor = 0
    THEN \/ Typed("left", last_op.buffer, last_op.byte_cursor, last_op.char_cursor, TRUE)
         \/ Typed("left", last_op.buffer, Len(last_op.buffer), 0, FALSE)
    ELSE \E found \in {boundary_before(last_op.buffer, last_op.byte_cursor)} :
            IF found = {}                                            \* unwrap of None
            THEN Typed("left", last_op.buffer, last_op.byte_cursor, last_op.char_cursor, TRUE)
            ELSE \E byte_cursor \in found :
                    Typed("left", last_op.buffer, byte_cursor,
                          IF last_op.char_cursor > 0 THEN last_op.char_cursor - 1 ELSE 0,
                          FALSE)

\* KeyCode::Right: right()
Right ==
    IF last_op.byte_cursor = Len(last_op.buffer)
    THEN Typed("right", last_op.buffer, last_op.byte_cursor, last_op.char_cursor, FALSE)
    ELSE /\ last_op.char_cursor < MaxCharCursor
         /\ LET range == {i \in (last_op.byte_cursor + 1)..(last_op.byte_cursor + 4) :
                          is_char_boundary(last_op.buffer, i)}
            IN  \E byte_cursor \in {i \in range : \A j \in range : i <= j} :
                   Typed("right", last_op.buffer, byte_cursor, last_op.char_cursor + 1,
                         FALSE)

\* KeyCode::Up and KeyCode::Home: up()
Up == Typed("up", last_op.buffer, 0, 0, FALSE)

NextTextInput ==
    \/ \E ch \in InputChars : InsertChar(ch)
    \/ Backspace
    \/ Left
    \/ Right
    \/ Up

SpecTextInput == InitTextInput /\ [][NextTextInput]_vars

\* the index at which the character before byte_cursor starts
C40_StartOfCharBefore(buffer, byte_cursor) ==
    CHOOSE i \in 0..(byte_cursor - 1) :
        /\ is_char_boundary(buffer, i)
        /\ \A j \in (i + 1)..(byte_cursor - 1) : ~is_char_boundary(buffer, j)

\* C40: with the cursor not at the start, backspace removes the character
\* directly before the cursor and moves the cursor back by that character
\* without aborting, so backspace after insert_char restores the buffer and
\* the cursor; left moves the cursor back by one character and does nothing
\* at the start of the buffer.
C40_BackspaceAndLeftStepOneCharacter ==
    LET b == last_op.before
        start == C40_StartOfCharBefore(b.buffer, b.byte_cursor)
    IN  /\ (last_op.op = "backspace" /\ b.byte_cursor > 0) =>
              /\ ~panicked
              /\ last_op.buffer = SubSeq(b.buffer, 1, start)
                                     \o SubSeq(b.buffer, b.byte_cursor + 1, Len(b.buffer))
              /\ last_op.byte_cursor = start
              /\ last_op.char_cursor = b.char_cursor - 1
        /\ (last_op.op = "backspace" /\ last_op.prev_op = "insert_char") =>
              /\ ~panicked
              /\ text_input = last_op.before2
        /\ (last_op.op = "left" /\ b.byte_cursor > 0) =>
              /\ ~panicked
              /\ last_op.buffer = b.buffer
              /\ last_op.byte_cursor = start
              /\ last_op.char_cursor = b.char_cursor - 1
        /\ (last_op.op = "left" /\ b.byte_cursor = 0) =>
              ~panicked /\ text_input = b

====
